---- MODULE Spec2Model ----
(***************************************************************************)
(* A model of the qkv-db storage engine: the on-disk catalog               *)
(* (Storage -> Database -> Bucket), the Engine's command dispatch and the  *)
(* streaming fold Bucket::reduce_kv_batched.                               *)
(*                                                                         *)
(* Representation.  A name is a sequence of characters (atoms); a text     *)
(* file is a sequence of characters in which "\n" is the line separator;   *)
(* a path is a sequence of names below the data directory.  keys.bin and   *)
(* values.bin are sequences of f32 values, 4 bytes each; file cursors and  *)
(* read sizes are counted in bytes.                                        *)
(***************************************************************************)
EXTENDS Integers, Sequences, FiniteSets, TLC

VARIABLES
    disk,       \* the data directory: path -> [kind, data]
    storage,    \* Engine.storage.databases: name -> [conf, buckets]
    pc,         \* "idle", or "fold" while reduce_kv_batched is running
    fold,       \* the locals of the running reduce_kv_batched
    op,         \* the operation the last step belongs to
    result,     \* what that operation returned
    panicked,   \* the process aborted (unwrap / expect / todo!)
    conn,       \* the accept loop of main and the connection it is serving
    parse       \* the command text given to Command::parse, what it returned,
                \* and whether the command was executed

vars == <<disk, storage, pc, fold, op, result, panicked, conn, parse>>

\* the variables of the Engine
engine == <<disk, storage, pc, fold, op, result, panicked>>

----------------------------------------------------------------------------
(* Bounds of the model *)

\* most rows of one Insert command / one insert_kv batch
MaxRows == 2
\* insert_kv is offered while the keys.bin files hold fewer floats than this
MaxStoredFloats == 5
\* largest batch size given to a direct reduce_kv_batched
MaxBatch == 2
\* a short read returns one byte, or at most this many whole floats
MaxShortFloats == 1
\* at most this many pairs of reads of one fold hold a short read
MaxShortPairs == 1
\* most commands in one request
MaxCommands == 2
\* most vectors in one vec_list of a command text
MaxVecs == 2
\* blocks handed to the attention kernel in one fold
MaxBlocks == 2
\* characters of a run written in the place of a number
MaxRun == 3

(* Program constants *)

\* size_of::<f32>()
F32Size == 4
\* the width passed to compute_cross_attention at the call site
KernelWidth == 512
\* qkv_vec_size when CREATE DATABASE carries no such property
DefaultVecSize == 512
\* rows per cpu in the batch size of a Scan
RowsPerCpu == 1024
\* bytes that read_buf makes room for in a Vec<u8> whose capacity is used up
ReservedBytes == 64

----------------------------------------------------------------------------
(* Names and paths *)

NL == "\n"

DbNames == {<<"a">>, <<"b">>}
BucketNames == {<<"x">>, <<"y">>}

DbInfoIndex == <<"db_info.index">>
BucketInfoIndex == <<"bucket_info.index">>
ConfBc == <<"conf.bc">>
KeysBin == <<"keys.bin">>
ValuesBin == <<"values.bin">>

Min(a, b) == IF a <= b THEN a ELSE b
Max(a, b) == IF a >= b THEN a ELSE b

\* all enumerations of a finite set: the orders a HashMap may iterate in
Orderings(S) ==
    {s \in [1..Cardinality(S) -> S] :
        \A i, j \in 1..Cardinality(S) : i # j => s[i] # s[j]}

----------------------------------------------------------------------------
(* The file system under the data directory *)

Dir == [kind |-> "dir", data |-> <<>>]
File(data) == [kind |-> "file", data |-> data]

IsDir(d, p) == p \in DOMAIN d /\ d[p].kind = "dir"
IsFile(d, p) == p \in DOMAIN d /\ d[p].kind = "file"
Parent(p) == SubSeq(p, 1, Len(p) - 1)
Put(d, p, e) == [q \in DOMAIN d \cup {p} |-> IF q = p THEN e ELSE d[q]]

IoOk(d) == [ok |-> TRUE, disk |-> d]
IoErr(d) == [ok |-> FALSE, disk |-> d]

\* tokio::fs::create_dir_all: every missing ancestor and the path itself
\* become directories; fails when one of them is a file
CreateDirAll(d, p) ==
    LET prefixes == {SubSeq(p, 1, n) : n \in 0..Len(p)}
    IN IF \E q \in prefixes : IsFile(d, q)
       THEN IoErr(d)
       ELSE IoOk([q \in DOMAIN d \cup prefixes |->
                     IF q \in DOMAIN d THEN d[q] ELSE Dir])

\* tokio::fs::write: create or truncate the file and write the whole content
WriteFile(d, p, data) ==
    IF IsDir(d, Parent(p)) /\ ~IsDir(d, p)
    THEN IoOk(Put(d, p, File(data)))
    ELSE IoErr(d)

\* File::options().write(true).read(true).create(true).open: an existing
\* file is opened as it is (no truncate), a missing one is created empty
OpenCreate(d, p) ==
    IF IsFile(d, p) THEN IoOk(d)
    ELSE IF IsDir(d, Parent(p)) /\ ~IsDir(d, p) THEN IoOk(Put(d, p, File(<<>>)))
    ELSE IoErr(d)

\* File::options().write(true).read(true).open: the file must exist
OpenExisting(d, p) == IF IsFile(d, p) THEN IoOk(d) ELSE IoErr(d)

----------------------------------------------------------------------------
(* Index files and the configuration file *)

RECURSIVE Join(_)
\* names.join("\n")
Join(names) ==
    IF Len(names) = 0 THEN <<>>
    ELSE IF Len(names) = 1 THEN names[1]
    ELSE names[1] \o <<NL>> \o Join(Tail(names))

RECURSIVE SplitLines(_, _)
\* content.split("\n"): the segments between separators, cur being the
\* segment under construction
SplitLines(content, cur) ==
    IF Len(content) = 0 THEN <<cur>>
    ELSE IF Head(content) = NL
         THEN <<cur>> \o SplitLines(Tail(content), <<>>)
         ELSE SplitLines(Tail(content), Append(cur, Head(content)))

\* content.split("\n").filter(|x| !x.is_empty()), collected into the key set
\* of the HashMap the caller builds
IndexNames(content) ==
    LET segs == SplitLines(content, <<>>)
    IN {segs[i] : i \in {j \in 1..Len(segs) : segs[j] # <<>>}}

\* bincode::serialize(&DatabaseConfiguration): the u32, little-endian
Serialize(n) ==
    <<n % 256, (n \div 256) % 256, (n \div 65536) % 256, (n \div 16777216) % 256>>

\* bincode::deserialize: needs four bytes
DeserializeOk(bytes) == Len(bytes) >= 4
Deserialize(bytes) ==
    bytes[1] + 256 * bytes[2] + 65536 * bytes[3] + 16777216 * bytes[4]

----------------------------------------------------------------------------
(* storage.rs: Bucket *)

NoBuckets == [n \in {} |-> [keys_pos |-> 0, values_pos |-> 0, qkv_vec_size |-> 0]]

KeysPath(path) == Append(path, KeysBin)
ValuesPath(path) == Append(path, ValuesBin)

\* a freshly opened pair of handles: both cursors at offset 0
NewBucket(conf) ==
    [keys_pos |-> 0, values_pos |-> 0, qkv_vec_size |-> conf.qkv_vec_size]

\* Bucket::initialize
BucketInitialize(d, path, conf) ==
    LET r1 == CreateDirAll(d, path)
        r2 == OpenCreate(r1.disk, KeysPath(path))
        r3 == OpenCreate(r2.disk, ValuesPath(path))
    IN IF ~r1.ok THEN [ok |-> FALSE, disk |-> r1.disk, bucket |-> NewBucket(conf)]
       ELSE IF ~r2.ok THEN [ok |-> FALSE, disk |-> r2.disk, bucket |-> NewBucket(conf)]
       ELSE [ok |-> r3.ok, disk |-> r3.disk, bucket |-> NewBucket(conf)]

\* Bucket::from_disk
BucketFromDisk(d, path, conf) ==
    [ok |-> OpenExisting(d, KeysPath(path)).ok /\ OpenExisting(d, ValuesPath(path)).ok,
     bucket |-> NewBucket(conf)]

RECURSIVE Flatten(_)
\* the loop of insert_kv: append every vector to the buffer to be written
Flatten(vecs) ==
    IF Len(vecs) = 0 THEN <<>> ELSE Head(vecs) \o Flatten(Tail(vecs))

KeysOf(data) == [i \in 1..Len(data) |-> data[i][1]]
ValuesOf(data) == [i \in 1..Len(data) |-> data[i][2]]

\* length of a file of floats in bytes
ByteLen(floats) == F32Size * Len(floats)

\* write(bytes) at a cursor that stands on a float boundary: the floats from
\* the cursor on are overwritten and the file grows as needed
WriteAt(content, pos, floats) ==
    LET at == pos \div F32Size
    IN SubSeq(content, 1, at) \o floats
         \o SubSeq(content, at + Len(floats) + 1, Len(content))

\* SeekFrom::End(0)
SeekEnd(content) == ByteLen(content)

\* an insert_kv that writes at the cursors of the handles without seeking
BucketInsertKv_NoSeek(d, path, bucket, data) ==
    LET ks == Flatten(KeysOf(data))
        vs == Flatten(ValuesOf(data))
        kfile == d[KeysPath(path)].data
        vfile == d[ValuesPath(path)].data
        d1 == Put(d, KeysPath(path), File(WriteAt(kfile, bucket.keys_pos, ks)))
        d2 == Put(d1, ValuesPath(path), File(WriteAt(vfile, bucket.values_pos, vs)))
    IN [disk |-> d2,
        bucket |-> [bucket EXCEPT !.keys_pos = @ + ByteLen(ks),
                                  !.values_pos = @ + ByteLen(vs)]]

\* Bucket::insert_kv: flatten, seek both handles to the end, write, flush
BucketInsertKv(d, path, bucket, data) ==
    LET ks == Flatten(KeysOf(data))
        vs == Flatten(ValuesOf(data))
        kfile == d[KeysPath(path)].data
        vfile == d[ValuesPath(path)].data
        kpos == SeekEnd(kfile)
        vpos == SeekEnd(vfile)
        d1 == Put(d, KeysPath(path), File(WriteAt(kfile, kpos, ks)))
        d2 == Put(d1, ValuesPath(path), File(WriteAt(vfile, vpos, vs)))
    IN [disk |-> d2,
        bucket |-> [bucket EXCEPT !.keys_pos = kpos + ByteLen(ks),
                                  !.values_pos = vpos + ByteLen(vs)]]

\* Bucket::clear: set_len(0) on both files, then seek both to the start
BucketClear(d, path, bucket) ==
    [disk |-> Put(Put(d, KeysPath(path), File(<<>>)), ValuesPath(path), File(<<>>)),
     bucket |-> [bucket EXCEPT !.keys_pos = 0, !.values_pos = 0]]

----------------------------------------------------------------------------
(* storage.rs: Database *)

NewDatabase(conf, buckets) == [conf |-> conf, buckets |-> buckets]

\* Database::initialize
DatabaseInitialize(d, dir, conf) ==
    LET r1 == CreateDirAll(d, dir)
        r2 == WriteFile(r1.disk, Append(dir, BucketInfoIndex), <<>>)
        r3 == WriteFile(r2.disk, Append(dir, ConfBc), Serialize(conf.qkv_vec_size))
        db == NewDatabase(conf, NoBuckets)
    IN IF ~r1.ok THEN [ok |-> FALSE, disk |-> r1.disk, db |-> db]
       ELSE IF ~r2.ok THEN [ok |-> FALSE, disk |-> r2.disk, db |-> db]
       ELSE [ok |-> r3.ok, disk |-> r3.disk, db |-> db]

\* Database::from_disk: status is "Ok", "Err" (an io error, returned) or
\* "Panic" (conf.bc does not deserialize)
DatabaseFromDisk(d, dir) ==
    LET idx == Append(dir, BucketInfoIndex)
        cfp == Append(dir, ConfBc)
        none == NewDatabase([qkv_vec_size |-> 0], NoBuckets)
    IN IF ~IsFile(d, idx) \/ ~IsFile(d, cfp) THEN [status |-> "Err", db |-> none]
       ELSE IF ~DeserializeOk(d[cfp].data) THEN [status |-> "Panic", db |-> none]
       ELSE LET conf == [qkv_vec_size |-> Deserialize(d[cfp].data)]
                names == IndexNames(d[idx].data)
            IN IF \E n \in names : ~BucketFromDisk(d, Append(dir, n), conf).ok
               THEN [status |-> "Err", db |-> none]
               ELSE [status |-> "Ok",
                     db |-> NewDatabase(conf,
                              [n \in names |-> BucketFromDisk(d, Append(dir, n), conf).bucket])]

\* the index written by create_bucket: the keys of the map, joined
\* an index written from the names without the last one of the order
BucketIndexContent_Stale(order) == Join(SubSeq(order, 1, Len(order) - 1))
BucketIndexContent(order) == Join(order)

\* a create_bucket that starts a new map with the new bucket alone
DatabaseCreateBucket_Replace(db, d, dir, name, order) ==
    IF name \in DOMAIN db.buckets
    THEN [status |-> "AlreadyExists", disk |-> d, db |-> db]
    ELSE LET init == BucketInitialize(d, Append(dir, name), db.conf)
             buckets == [n \in {name} |-> init.bucket]
             w == WriteFile(init.disk, Append(dir, BucketInfoIndex),
                            BucketIndexContent(order))
         IN IF ~init.ok THEN [status |-> "Panic", disk |-> init.disk, db |-> db]
            ELSE IF ~w.ok
                 THEN [status |-> "Panic", disk |-> w.disk,
                       db |-> [db EXCEPT !.buckets = buckets]]
                 ELSE [status |-> "Ok", disk |-> w.disk,
                       db |-> [db EXCEPT !.buckets = buckets]]

\* Database::create_bucket; order is the iteration order of buckets.keys()
\* after the insert
DatabaseCreateBucket(db, d, dir, name, order) ==
    IF name \in DOMAIN db.buckets
    THEN [status |-> "AlreadyExists", disk |-> d, db |-> db]
    ELSE LET init == BucketInitialize(d, Append(dir, name), db.conf)
             buckets == [n \in DOMAIN db.buckets \cup {name} |->
                            IF n = name THEN init.bucket ELSE db.buckets[n]]
             w == WriteFile(init.disk, Append(dir, BucketInfoIndex),
                            BucketIndexContent(order))
         IN IF ~init.ok THEN [status |-> "Panic", disk |-> init.disk, db |-> db]
            ELSE IF ~w.ok
                 THEN [status |-> "Panic", disk |-> w.disk,
                       db |-> [db EXCEPT !.buckets = buckets]]
                 ELSE [status |-> "Ok", disk |-> w.disk,
                       db |-> [db EXCEPT !.buckets = buckets]]

----------------------------------------------------------------------------
(* storage.rs: Storage *)

NoDatabases == [n \in {} |-> NewDatabase([qkv_vec_size |-> 0], NoBuckets)]

\* Storage::from_disk
StorageFromDisk(d) ==
    LET idx == <<DbInfoIndex>>
    IN IF ~IsFile(d, idx) THEN [status |-> "Err", databases |-> NoDatabases]
       ELSE LET names == IndexNames(d[idx].data)
            IN IF \E n \in names : DatabaseFromDisk(d, <<n>>).status = "Panic"
               THEN [status |-> "Panic", databases |-> NoDatabases]
               ELSE IF \E n \in names : DatabaseFromDisk(d, <<n>>).status = "Err"
               THEN [status |-> "Err", databases |-> NoDatabases]
               ELSE [status |-> "Ok",
                     databases |-> [n \in names |-> DatabaseFromDisk(d, <<n>>).db]]

\* the index written by create_database: the keys of the map, joined
DbIndexContent(order) == Join(order)

\* Storage::create_database; order is the iteration order of
\* databases.keys() after the insert
StorageCreateDatabase(st, d, name, conf, order) ==
    IF name \in DOMAIN st
    THEN [status |-> "AlreadyExists", disk |-> d, databases |-> st]
    ELSE LET init == DatabaseInitialize(d, <<name>>, conf)
             dbs == [n \in DOMAIN st \cup {name} |->
                        IF n = name THEN init.db ELSE st[n]]
             w == WriteFile(init.disk, <<DbInfoIndex>>, DbIndexContent(order))
         IN IF ~init.ok THEN [status |-> "Panic", disk |-> init.disk, databases |-> st]
            ELSE IF ~w.ok THEN [status |-> "Panic", disk |-> w.disk, databases |-> dbs]
            ELSE [status |-> "Ok", disk |-> w.disk, databases |-> dbs]

----------------------------------------------------------------------------
(* main.rs: results and errors of Engine::execute *)

None == [some |-> FALSE]
Some(m) == [some |-> TRUE, matrix |-> m]
Ok(v) == [tag |-> "Ok", value |-> v]
Err(e) == [tag |-> "Err", error |-> e]
\* the call did not return: the thread panicked
Panic == [tag |-> "Panic"]
\* reduce_kv_batched, insert_kv and clear return no matrix
Unit == [tag |-> "Ok", value |-> None]

DatabaseDoesNotExist(database) ==
    [kind |-> "DatabaseDoesNotExist", database |-> database]
BucketDoesNotExist(database, bucket) ==
    [kind |-> "BucketDoesNotExist", database |-> database, bucket |-> bucket]
SizeMismatch(expected, got) ==
    [kind |-> "SizeMismatch", expected |-> expected, got |-> got]
EntityAlreadyExists(name, ty) ==
    [kind |-> "EntityAlreadyExists", name |-> name, ty |-> ty]
TypeMismatch(expected, found, property) ==
    [kind |-> "TypeMismatch", expected |-> expected, found |-> found,
     property |-> property]

\* outcome of a validation loop
CheckOk == [bad |-> FALSE]
CheckErr(e) == [bad |-> TRUE, error |-> e]

\* what one call of execute did: its return, the catalog and the disk after it
Outcome(r, st, d) == [result |-> r, storage |-> st, disk |-> d]

----------------------------------------------------------------------------
(* main.rs: Engine::execute, CreateDatabase and CreateBucket *)

\* a search that takes the last property of that name
FindQkvVecSize_Last(props) ==
    LET idx == {i \in 1..Len(props) : props[i].name = "qkv_vec_size"}
    IN IF idx = {} THEN 0 ELSE CHOOSE i \in idx : \A j \in idx : i >= j

\* properties.iter().find(|x| x.name == "qkv_vec_size"): index of the first
\* such property, 0 when there is none
FindQkvVecSize(props) ==
    LET idx == {i \in 1..Len(props) : props[i].name = "qkv_vec_size"}
    IN IF idx = {} THEN 0 ELSE CHOOSE i \in idx : \A j \in idx : i <= j

\* Engine::create_database: Storage::create_database(..).unwrap()
EngineCreateDatabase(st, d, name, vec_size, order) ==
    LET r == StorageCreateDatabase(st, d, name, [qkv_vec_size |-> vec_size], order)
    IN IF r.status = "Ok" THEN Outcome(Ok(None), r.databases, r.disk)
       ELSE Outcome(Panic, r.databases, r.disk)

\* a CreateDatabase that reads the width before it looks the name up
ExecCreateDatabase_WidthFirst(st, d, name, props, order) ==
    LET i == FindQkvVecSize(props)
    IN IF i # 0 /\ props[i].data.ty = "Float"
       THEN Outcome(Err(TypeMismatch("Unsigned integer", "Float", "qkv_vec_size")), st, d)
       ELSE IF i # 0 /\ props[i].data.v <= 0
       THEN Outcome(Err(TypeMismatch("Unsigned integer", "Signed integer", "qkv_vec_size")), st, d)
       ELSE IF name \in DOMAIN st
       THEN Outcome(Err(EntityAlreadyExists(name, "database")), st, d)
       ELSE EngineCreateDatabase(st, d, name,
                                 IF i = 0 THEN DefaultVecSize ELSE props[i].data.v, order)

\* Command::CreateDatabase
ExecCreateDatabase(st, d, name, props, order) ==
    IF name \in DOMAIN st
    THEN Outcome(Err(EntityAlreadyExists(name, "database")), st, d)
    ELSE LET i == FindQkvVecSize(props)
         IN IF i = 0 THEN EngineCreateDatabase(st, d, name, DefaultVecSize, order)
            ELSE IF props[i].data.ty = "Float"
            THEN Outcome(Err(TypeMismatch("Unsigned integer", "Float", "qkv_vec_size")), st, d)
            ELSE IF props[i].data.ty = "String"
            THEN Outcome(Err(TypeMismatch("Unsigned integer", "String", "qkv_vec_size")), st, d)
            ELSE IF props[i].data.v <= 0
            THEN Outcome(Err(TypeMismatch("Unsigned integer", "Signed integer", "qkv_vec_size")), st, d)
            ELSE EngineCreateDatabase(st, d, name, props[i].data.v, order)

\* Engine::create_bucket: Database::create_bucket(..).unwrap()
EngineCreateBucket(st, d, bucket_name, database, order) ==
    IF database \notin DOMAIN st
    THEN Outcome(Err(DatabaseDoesNotExist(database)), st, d)
    ELSE LET r == DatabaseCreateBucket(st[database], d, <<database>>, bucket_name, order)
         IN IF r.status = "Ok"
            THEN Outcome(Ok(None), [st EXCEPT ![database] = r.db], r.disk)
            ELSE Outcome(Panic, [st EXCEPT ![database] = r.db], r.disk)

\* Command::CreateBucket
ExecCreateBucket(st, d, database, name, order) ==
    EngineCreateBucket(st, d, name, database, order)

----------------------------------------------------------------------------
(* main.rs: Engine::execute, Insert *)

\* a check of the key vectors only
RECURSIVE InsertCheck_KeysOnly(_, _)
InsertCheck_KeysOnly(target_size, entries) ==
    IF Len(entries) = 0 THEN CheckOk
    ELSE LET k == Head(entries)[1]
         IN IF target_size # Len(k)
            THEN CheckErr(SizeMismatch(target_size, Len(k)))
            ELSE InsertCheck_KeysOnly(target_size, Tail(entries))

\* the validation loop of Insert: the rows are visited in order, the key
\* before the value; the result is the error of the first mismatch, or None
RECURSIVE InsertCheck(_, _)
InsertCheck(target_size, entries) ==
    IF Len(entries) = 0 THEN CheckOk
    ELSE LET k == Head(entries)[1]
             v == Head(entries)[2]
         IN IF target_size # Len(k)
            THEN CheckErr(SizeMismatch(target_size, Len(k)))
            ELSE IF target_size # Len(v)
            THEN CheckErr(SizeMismatch(target_size, Len(k)))
            ELSE InsertCheck(target_size, Tail(entries))

\* an insert that writes the key vectors of the rows and not the values
EngineInsert_KeysOnly(st, d, data, bucket, database) ==
    IF ~(database \in DOMAIN st /\ bucket \in DOMAIN st[database].buckets)
    THEN Outcome(Ok(None), st, d)
    ELSE LET kp == KeysPath(<<database, bucket>>)
         IN Outcome(Ok(None), st,
                    Put(d, kp, File(d[kp].data \o Flatten(KeysOf(data)))))

\* Engine::insert: the body is empty
EngineInsert(st, d, data, bucket, database) == Outcome(Ok(None), st, d)

\* an Insert that takes a missing database like a missing bucket
ExecInsert_NoDatabase(st, d, database, bucket, entries) ==
    IF database \notin DOMAIN st
    THEN Outcome(Ok(None), st, d)
    ELSE LET chk == InsertCheck(st[database].conf.qkv_vec_size, entries)
         IN IF chk.bad THEN Outcome(Err(chk.error), st, d)
            ELSE EngineInsert(st, d, entries, bucket, database)

\* Command::Insert
ExecInsert(st, d, database, bucket, entries) ==
    IF database \notin DOMAIN st
    THEN Outcome(Err(DatabaseDoesNotExist(database)), st, d)
    ELSE LET chk == InsertCheck(st[database].conf.qkv_vec_size, entries)
         IN IF chk.bad THEN Outcome(Err(chk.error), st, d)
            ELSE EngineInsert(st, d, entries, bucket, database)

\* Command::Dummy
ExecDummy(st, d) == Outcome(Ok(None), st, d)

----------------------------------------------------------------------------
(* storage.rs: the reads of reduce_kv_batched *)

\* the room read_buf finds in an empty Vec<u8> of capacity cap: the capacity,
\* and for a Vec without capacity the bytes that BufMut::chunk_mut reserves
SpareCapacity(cap) == IF cap = 0 THEN ReservedBytes ELSE cap

\* bytes a read_buf into an empty buffer of capacity cap can deliver
Available(content, pos, cap) ==
    Min(SpareCapacity(cap), Max(0, ByteLen(content) - pos))

\* byte counts a read may return: nothing at end of file (or with no
\* capacity), else the whole block or a shorter non-empty prefix, which
\* ends inside a float (1 byte) or after some whole floats
ReadSizes(avail) ==
    IF avail = 0 THEN {0}
    ELSE {avail} \cup {n \in {1} \cup {F32Size * k : k \in 1..MaxShortFloats} : n <= avail}

\* the buffer after read_buf returned n bytes from offset pos: its length in
\* bytes and the whole floats it holds
ReadBuf(content, pos, n) ==
    [bytes |-> n,
     floats |-> SubSeq(content, pos \div F32Size + 1, (pos + n) \div F32Size)]

EmptyBuf == [bytes |-> 0, floats |-> <<>>]

\* VecView::from_vec: Err(InvalidLayoutError) unless the byte length is a
\* multiple of size_of::<f32>()
VecViewOk(buf) == buf.bytes % F32Size = 0
\* VecView::deref: the bytes as a slice of f32
VecViewSlice(buf) == buf.floats

----------------------------------------------------------------------------
(* main.rs: the attention kernel, as far as shapes go.  The folded matrix   *)
(* is kept symbolically: its shape and the blocks folded into it, in order. *)

\* Array2::from_shape_vec((len / width, width), vec): Err unless the shape
\* holds exactly len elements
FromShapeVecOk(len, width) == (len \div width) * width = len

\* compute_cross_attention(qkv_vec_size, q) applied to one block: TRUE when
\* no unwrap and no shape check of dot fails
AttentionOk(qkv_vec_size, q_shape, k, v) ==
    /\ FromShapeVecOk(Len(k), qkv_vec_size)
    /\ FromShapeVecOk(Len(v), qkv_vec_size)
    \* q.dot(&k.t()): (Nq, cols) x (width, k_rows)
    /\ q_shape[2] = qkv_vec_size
    \* scores.dot(&v): (Nq, k_rows) x (v_rows, width)
    /\ Len(k) \div qkv_vec_size = Len(v) \div qkv_vec_size

\* the kernel of a fold: "attention" is compute_cross_attention(512, q),
\* "record" is a kernel that only notes what it is given
KernelOk(kernel, q_shape, k, v) ==
    kernel = "record" \/ AttentionOk(KernelWidth, q_shape, k, v)

Block(k, v) == [keys |-> k, values |-> v]

\* the matrix a Scan returns: Nq rows of q_shape[2] floats, the fold of blocks
Matrix(q_shape, blocks) == [shape |-> q_shape, blocks |-> blocks]
EmptyMatrix == Matrix(<<0, 0>>, <<>>)

----------------------------------------------------------------------------
(* main.rs: the attention kernel on values.  A float is an exact fraction   *)
(* <<numerator, denominator>> in lowest terms; the rounding of f32 is left  *)
(* out.  x.exp() is kept as a power of a whole base standing for e, on      *)
(* whole arguments from 0 on, so that an equation between two results is an *)
(* equation of fractions in that base.                                     *)

RECURSIVE Gcd(_, _)
Gcd(a, b) == IF b = 0 THEN a ELSE Gcd(b, a % b)

Rat(n, d) ==
    LET g == Gcd(IF n < 0 THEN -n ELSE n, d) IN <<n \div g, d \div g>>
RatInt(n) == <<n, 1>>
RatAdd(x, y) ==
    IF x[1] = 0 THEN y ELSE IF y[1] = 0 THEN x
    ELSE Rat(x[1] * y[2] + y[1] * x[2], x[2] * y[2])
RatMul(x, y) ==
    IF x[1] = 0 \/ y[1] = 0 THEN RatInt(0) ELSE Rat(x[1] * y[1], x[2] * y[2])
\* x / y for y > 0
RatDiv(x, y) ==
    IF x[1] = 0 THEN RatInt(0) ELSE Rat(x[1] * y[2], x[2] * y[1])

\* |x| x.exp()
Exp(x) == RatInt(2 ^ x[1])

\* f[lo] + .. + f[hi]
RECURSIVE SumRange(_, _, _)
SumRange(f, lo, hi) ==
    IF lo > hi THEN RatInt(0)
    ELSE IF lo = hi THEN f[lo]
    ELSE LET mid == (lo + hi) \div 2
         IN RatAdd(SumRange(f, lo, mid), SumRange(f, mid + 1, hi))

\* an Array2 is the sequence of its rows
NRows(m) == Len(m)
NCols(m) == IF Len(m) = 0 THEN 0 ELSE Len(m[1])

\* Array2::from_shape_vec((rows, cols), vec), row-major
FromShapeVec(rows, cols, vec) ==
    [i \in 1..rows |-> [c \in 1..cols |-> vec[(i - 1) * cols + c]]]

\* Array2::from_elem(shape, 0.)
Zeros(shape) == [i \in 1..shape[1] |-> [c \in 1..shape[2] |-> RatInt(0)]]

\* a.t()
Transposed(m) == [c \in 1..NCols(m) |-> [i \in 1..NRows(m) |-> m[i][c]]]

\* a.dot(&b)
Dot(a, b) ==
    [i \in 1..NRows(a) |->
       [j \in 1..NCols(b) |->
          SumRange([x \in 1..NCols(a) |-> RatMul(a[i][x], b[x][j])],
                   1, NCols(a))]]

\* m.mapv(|x| x.exp())
MapvExp(m) == [i \in 1..NRows(m) |-> [j \in 1..NCols(m) |-> Exp(m[i][j])]]

\* m.sum_axis(Axis(0)): one sum per column, taken over the rows
SumAxis0(m) ==
    [j \in 1..NCols(m) |-> SumRange([i \in 1..NRows(m) |-> m[i][j]], 1, NRows(m))]

\* m.sum_axis(Axis(1)): one sum per row, taken over the columns
SumAxis1(m) == [i \in 1..NRows(m) |-> SumRange(m[i], 1, NCols(m))]

\* m / vec for a vec as long as a row of m: vec is broadcast over the rows
DivByRow(m, vec) ==
    [i \in 1..NRows(m) |-> [j \in 1..NCols(m) |-> RatDiv(m[i][j], vec[j])]]

\* m divided column-wise by a vec as long as a column of m
DivByColumn(m, vec) ==
    [i \in 1..NRows(m) |-> [j \in 1..NCols(m) |-> RatDiv(m[i][j], vec[i])]]

\* m / scalar
DivByScalar(m, s) ==
    [i \in 1..NRows(m) |-> [j \in 1..NCols(m) |-> RatDiv(m[i][j], RatInt(s))]]

\* a.add(b) for equal shapes
MatAdd(a, b) ==
    [i \in 1..NRows(a) |-> [j \in 1..NCols(a) |-> RatAdd(a[i][j], b[i][j])]]

\* a kernel whose scores are normalised along the key axis
ComputeCrossAttention_RowSoftmax(qkv_vec_size, q, acc, k_vec, v_vec) ==
    LET k == FromShapeVec(Len(k_vec) \div qkv_vec_size, qkv_vec_size, k_vec)
        v == FromShapeVec(Len(v_vec) \div qkv_vec_size, qkv_vec_size, v_vec)
        e_scores == MapvExp(Dot(q, Transposed(k)))
        scores == DivByColumn(e_scores, SumAxis1(e_scores))
        re_ == Dot(scores, v)
    IN MatAdd(re_, DivByScalar(acc, qkv_vec_size))

\* the closure returned by compute_cross_attention(qkv_vec_size, q), applied
\* to acc and one block; the value is the new acc (the unwraps and shape
\* checks are AttentionOk)
ComputeCrossAttention(qkv_vec_size, q, acc, k_vec, v_vec) ==
    LET k == FromShapeVec(Len(k_vec) \div qkv_vec_size, qkv_vec_size, k_vec)
        v == FromShapeVec(Len(v_vec) \div qkv_vec_size, qkv_vec_size, v_vec)
        e_scores == MapvExp(Dot(q, Transposed(k)))
        scores == DivByRow(e_scores, SumAxis0(e_scores))
        re_ == Dot(scores, v)
    IN MatAdd(re_, DivByScalar(acc, qkv_vec_size))

----------------------------------------------------------------------------
(* main.rs: Engine::execute, Scan *)

Physical(name) == [tag |-> "Physical", name |-> name]
Hot == [tag |-> "Hot", name |-> <<>>]
All == [tag |-> "All", name |-> <<>>]

\* the validation loop of Scan: the error of the first query of wrong width
RECURSIVE ScanCheck(_, _)
ScanCheck(target_size, queries) ==
    IF Len(queries) = 0 THEN CheckOk
    ELSE IF target_size # Len(Head(queries))
         THEN CheckErr(SizeMismatch(target_size, Len(Head(queries))))
         ELSE ScanCheck(target_size, Tail(queries))

\* a Scan that answers an empty query list before it looks the bucket up
ExecScan_EmptyFirst(st, d, database, target, queries) ==
    LET over(r) == [done |-> TRUE, outcome |-> Outcome(r, st, d)]
    IN IF target.tag # "Physical" THEN over(Panic)
       ELSE IF database \notin DOMAIN st THEN over(Err(DatabaseDoesNotExist(database)))
       ELSE LET chk == ScanCheck(st[database].conf.qkv_vec_size, queries)
            IN IF chk.bad THEN over(Err(chk.error))
               ELSE IF Len(queries) = 0 THEN over(Ok(Some(EmptyMatrix)))
               ELSE IF target.name \notin DOMAIN st[database].buckets
               THEN over(Err(BucketDoesNotExist(database, target.name)))
               ELSE [done |-> FALSE, outcome |-> Outcome(Unit, st, d),
                     q_shape |-> <<Len(queries), Len(queries[1])>>]

\* a Scan that folds the bucket also for an empty query list
ExecScan_FoldsEmpty(st, d, database, target, queries) ==
    LET over(r) == [done |-> TRUE, outcome |-> Outcome(r, st, d)]
    IN IF target.tag # "Physical" THEN over(Panic)
       ELSE IF database \notin DOMAIN st THEN over(Err(DatabaseDoesNotExist(database)))
       ELSE LET chk == ScanCheck(st[database].conf.qkv_vec_size, queries)
            IN IF chk.bad THEN over(Err(chk.error))
               ELSE IF target.name \notin DOMAIN st[database].buckets
               THEN over(Err(BucketDoesNotExist(database, target.name)))
               ELSE [done |-> FALSE, outcome |-> Outcome(Unit, st, d),
                     q_shape |-> <<Len(queries),
                                   IF Len(queries) = 0 THEN 0 ELSE Len(queries[1])>>]

\* Command::Scan up to the call of reduce_kv_batched: either the command is
\* over (done, with its outcome) or the fold starts with the given q_shape
ExecScan(st, d, database, target, queries) ==
    LET over(r) == [done |-> TRUE, outcome |-> Outcome(r, st, d)]
    IN IF target.tag # "Physical" THEN over(Panic)
       ELSE IF database \notin DOMAIN st THEN over(Err(DatabaseDoesNotExist(database)))
       ELSE LET chk == ScanCheck(st[database].conf.qkv_vec_size, queries)
            IN IF chk.bad THEN over(Err(chk.error))
               ELSE IF target.name \notin DOMAIN st[database].buckets
               THEN over(Err(BucketDoesNotExist(database, target.name)))
               ELSE IF Len(queries) = 0 THEN over(Ok(Some(EmptyMatrix)))
               ELSE [done |-> FALSE, outcome |-> Outcome(Unit, st, d),
                     q_shape |-> <<Len(queries), Len(queries[1])>>]

----------------------------------------------------------------------------
(* storage.rs: Bucket::reduce_kv_batched *)

NoFold ==
    [database |-> <<>>, bucket |-> <<>>, cap |-> 0, kernel |-> "record",
     q_shape |-> <<0, 0>>, keys_buf |-> EmptyBuf, values_buf |-> EmptyBuf,
     calls |-> <<>>, short |-> 0]

\* capacity of each buffer in bytes
BufCapacity_Floats(qkv_vec_size, batch_size) == qkv_vec_size * batch_size
BufCapacity(qkv_vec_size, batch_size) == F32Size * qkv_vec_size * batch_size

\* one read_buf on each handle into the emptied buffers, nk and nv being the
\* byte counts the two reads return
ReadBoth(f, d, path, bucket, nk, nv) ==
    LET kfile == d[KeysPath(path)].data
        vfile == d[ValuesPath(path)].data
    IN [fold |-> [f EXCEPT
                    !.keys_buf = ReadBuf(kfile, bucket.keys_pos, nk),
                    !.values_buf = ReadBuf(vfile, bucket.values_pos, nv),
                    !.short = IF /\ nk = Available(kfile, bucket.keys_pos, f.cap)
                                 /\ nv = Available(vfile, bucket.values_pos, f.cap)
                              THEN @ ELSE @ + 1],
        bucket |-> [bucket EXCEPT !.keys_pos = @ + nk, !.values_pos = @ + nv]]

\* the byte counts the next pair of reads may return; f.short counts the
\* pairs of this fold in which a read came back short
KeyReads(f, d, path, bucket) ==
    LET avail == Available(d[KeysPath(path)].data, bucket.keys_pos, f.cap)
    IN IF f.short < MaxShortPairs THEN ReadSizes(avail) ELSE {avail}
ValueReads(f, d, path, bucket) ==
    LET avail == Available(d[ValuesPath(path)].data, bucket.values_pos, f.cap)
    IN IF f.short < MaxShortPairs THEN ReadSizes(avail) ELSE {avail}

\* SeekFrom::Start(0) on both handles
SeekStart(bucket) == [bucket EXCEPT !.keys_pos = 0, !.values_pos = 0]

\* reduce_kv_batched up to the loop: seek to the start, reserve the buffers
ReduceBegin(database, name, bucket, batch_size, kernel, q_shape) ==
    [fold |-> [NoFold EXCEPT !.database = database, !.bucket = name,
                             !.cap = BufCapacity(bucket.qkv_vec_size, batch_size),
                             !.kernel = kernel, !.q_shape = q_shape],
     bucket |-> SeekStart(bucket)]

\* a loop without the break: at the end of the data it reads again
ReduceIteration_NoBreak(f, d, path, bucket, nk, nv) ==
    IF ~VecViewOk(f.keys_buf) \/ ~VecViewOk(f.values_buf)
    THEN [status |-> "Panic", fold |-> f, bucket |-> bucket]
    ELSE LET keys == VecViewSlice(f.keys_buf)
             values == VecViewSlice(f.values_buf)
             called == IF Len(keys) = 0 THEN f
                       ELSE [f EXCEPT !.calls = Append(@, Block(keys, values))]
         IN IF ~KernelOk(f.kernel, f.q_shape, keys, values)
            THEN [status |-> "Panic", fold |-> called, bucket |-> bucket]
            ELSE LET r == ReadBoth(called, d, path, bucket, nk, nv)
                 IN [status |-> "Continue", fold |-> r.fold, bucket |-> r.bucket]

\* one turn of the loop of reduce_kv_batched: the two views, the test for the
\* end of the data, the kernel call, and the next pair of reads
ReduceIteration(f, d, path, bucket, nk, nv) ==
    IF ~VecViewOk(f.keys_buf) \/ ~VecViewOk(f.values_buf)
    THEN [status |-> "Panic", fold |-> f, bucket |-> bucket]
    ELSE LET keys == VecViewSlice(f.keys_buf)
             values == VecViewSlice(f.values_buf)
             called == [f EXCEPT !.calls = Append(@, Block(keys, values))]
         IN IF Len(keys) = 0
            THEN [status |-> "Break", fold |-> f, bucket |-> bucket]
            ELSE IF ~KernelOk(f.kernel, f.q_shape, keys, values)
            THEN [status |-> "Panic", fold |-> called, bucket |-> bucket]
            ELSE LET r == ReadBoth(called, d, path, bucket, nk, nv)
                 IN [status |-> "Continue", fold |-> r.fold, bucket |-> r.bucket]

----------------------------------------------------------------------------
(* main.rs: main, the accept loop *)

\* a parsed Command; the fields a kind does not have are empty
CmdCreateDatabase(name, props) ==
    [kind |-> "CreateDatabase", database |-> name, bucket |-> <<>>,
     props |-> props, entries |-> <<>>, target |-> Physical(<<>>), queries |-> <<>>]
CmdCreateBucket(database, name) ==
    [kind |-> "CreateBucket", database |-> database, bucket |-> name,
     props |-> <<>>, entries |-> <<>>, target |-> Physical(<<>>), queries |-> <<>>]
CmdInsert(database, bucket, entries) ==
    [kind |-> "Insert", database |-> database, bucket |-> bucket,
     props |-> <<>>, entries |-> entries, target |-> Physical(<<>>), queries |-> <<>>]
CmdScan(database, target, queries) ==
    [kind |-> "Scan", database |-> database, bucket |-> <<>>,
     props |-> <<>>, entries |-> <<>>, target |-> target, queries |-> queries]

\* one `...;` of a request: a text Command::parse accepts, or one it rejects
Parsed(c) == [ok |-> TRUE, cmd |-> c]
Unparsable == [ok |-> FALSE, cmd |-> CmdScan(<<>>, Physical(<<>>), <<>>)]

UnexpectedEOS == [kind |-> "UnexpectedEOS"]

\* parse_commands: the commands in order, or the error of the first text that
\* Command::parse rejects (the `?` inside the loop)
ParseCommands(items) ==
    IF \E i \in 1..Len(items) : ~items[i].ok
    THEN [ok |-> FALSE, commands |-> <<>>, error |-> UnexpectedEOS]
    ELSE [ok |-> TRUE, commands |-> [i \in 1..Len(items) |-> items[i].cmd],
          error |-> UnexpectedEOS]

\* the #[error(..)] strings of ExecutionError and ParseError, in pieces
Display(e) ==
    CASE e.kind = "DatabaseDoesNotExist" ->
           <<"Database '">> \o e.database \o <<"' does not exist">>
      [] e.kind = "BucketDoesNotExist" ->
           <<"Bucket '">> \o e.bucket \o <<"' does not exist inside database '">>
             \o e.database \o <<"'">>
      [] e.kind = "SizeMismatch" ->
           <<"Size of received vector does not match the configured database's : ">>
      [] e.kind = "EntityAlreadyExists" ->
           <<"Entity ">> \o e.name \o <<" of type ", e.ty, " already exists">>
      [] e.kind = "TypeMismatch" ->
           <<"Property ", e.property, " has type ", e.expected, ", but ", e.found,
             " was passed">>
      [] e.kind = "UnexpectedEOS" -> <<"Unexpected end of input">>

\* what a frame carries: the pieces of its text and the matrix printed in it
Payload(text, rows) == [text |-> text, rows |-> rows]

\* the success response: the matrix line when the last result is Some, DONE.
Format(res) ==
    Payload(IF res.some THEN <<"(", "rows", ")\n", "DONE.">> ELSE <<"DONE.">>, res)

\* the two stream.write calls of a response, of which the first n succeed;
\* a failed write means the connection is lost
WriteFrame(c, payload, n) ==
    [c EXCEPT !.sent = @ \o (IF n >= 1 THEN <<[part |-> "len", payload |-> payload]>>
                             ELSE <<>>)
                         \o (IF n = 2 THEN <<[part |-> "data", payload |-> payload]>>
                             ELSE <<>>),
              !.up = (n = 2)]

\* how many of the two writes can succeed
WriteOutcomes(c) == IF c.up THEN 0..2 ELSE {0}

\* a client: it drops before its frame is read, sends bytes that are not
\* UTF-8, or sends the text of some commands
LostRequest == [kind |-> "lost", items |-> <<>>]
BinaryRequest == [kind |-> "binary", items |-> <<>>]
TextRequest(items) == [kind |-> "text", items |-> items]

\* the loop variables of main: phase "accept", "loop" (at the head of the
\* for loop), "executed" (execute was called), "exited" (main returned)
NoConn ==
    [phase |-> "accept", up |-> FALSE, request |-> LostRequest, todo |-> <<>>,
     current |-> CmdScan(<<>>, Physical(<<>>), <<>>), res |-> None,
     error |-> FALSE, sent |-> <<>>, executed |-> <<>>]

\* accept, the two read_exact, String::from_utf8(..)?, parse_commands and the
\* reply to a parse error
AcceptRequest(req, n) ==
    LET fresh == [NoConn EXCEPT !.request = req, !.up = TRUE]
        p == ParseCommands(req.items)
    IN IF req.kind = "lost" THEN [NoConn EXCEPT !.request = req]
       ELSE IF req.kind = "binary" THEN [fresh EXCEPT !.phase = "exited"]
       ELSE IF ~p.ok THEN WriteFrame(fresh, Payload(Display(p.error), None), n)
       ELSE [fresh EXCEPT !.phase = "loop", !.todo = p.commands]

\* a loop body that leaves the for loop at the first Err
AfterCommand_Break(c, r, n) ==
    IF r.tag = "Ok" THEN [c EXCEPT !.res = r.value, !.phase = "loop"]
    ELSE [WriteFrame(c, Payload(Display(r.error), None), n)
            EXCEPT !.error = (c.error \/ n = 2), !.phase = "loop", !.todo = <<>>]

\* a loop body that keeps the last matrix: Ok(None) leaves res as it is
AfterCommand_KeepMatrix(c, r, n) ==
    IF r.tag = "Ok"
    THEN [c EXCEPT !.res = IF r.value.some THEN r.value ELSE @, !.phase = "loop"]
    ELSE [WriteFrame(c, Payload(Display(r.error), None), n)
            EXCEPT !.error = (c.error \/ n = 2), !.phase = "loop"]

\* the body of the for loop after execute returned r: Ok assigns res; Err
\* writes the error, sets the flag when both writes went through, and goes
\* on with the next command
AfterCommand(c, r, n) ==
    IF r.tag = "Ok" THEN [c EXCEPT !.res = r.value, !.phase = "loop"]
    ELSE [WriteFrame(c, Payload(Display(r.error), None), n)
            EXCEPT !.error = (c.error \/ n = 2), !.phase = "loop"]

\* an end of request without the `if error { continue }`
Respond_NoFlag(c, n) ==
    [WriteFrame(c, Format(c.res), n) EXCEPT !.phase = "accept"]

\* after the for loop: nothing more when the flag is set, else the success
\* response
Respond(c, n) ==
    IF c.error THEN [c EXCEPT !.phase = "accept"]
    ELSE [WriteFrame(c, Format(c.res), n) EXCEPT !.phase = "accept"]

----------------------------------------------------------------------------
(* Inputs *)

Integer(v) == [ty |-> "Integer", v |-> v]
\* a literal with a '.', the value in tenths
Float(tenths) == [ty |-> "Float", v |-> tenths]
Property(name, data) == [name |-> name, data |-> data]

VecSizeProp(v) == Property("qkv_vec_size", Integer(v))
FloatProp == Property("qkv_vec_size", Float(15))
OtherProp == Property("hot_size", Integer(7))

\* WITH clauses: none, a valid width, widths that are not positive, a float,
\* another property before the width, two widths
PropertyLists ==
    { <<>>, <<VecSizeProp(2)>>, <<VecSizeProp(0)>>, <<VecSizeProp(-1)>>,
      <<FloatProp>>, <<OtherProp>>, <<OtherProp, VecSizeProp(2)>>,
      <<FloatProp, VecSizeProp(2)>>, <<VecSizeProp(2), FloatProp>> }

SeqsUpTo(S, n) == UNION {[1..m -> S] : m \in 0..n}

\* a vector of w floats, all different and marked by tag
Vector(w, tag) == [i \in 1..w |-> tag + i]

\* widths of the key and of the value of a row: width 2, a key or a value of
\* another width, width 512
RowShapes == { <<2, 2>>, <<1, 2>>, <<2, 1>>, <<DefaultVecSize, DefaultVecSize>> }

\* the rows of the given shapes; row j holds the floats 1000j+1.. in its key
\* and 2000j+1.. in its value, so that no two rows of a batch are equal
Rows(shapes) ==
    [j \in 1..Len(shapes) |->
        <<Vector(shapes[j][1], 1000 * j), Vector(shapes[j][2], 2000 * j)>>]

Batches == {Rows(shapes) : shapes \in SeqsUpTo(RowShapes, MaxRows)}

\* query lists: none, of width 2, of a wrong width, of width 512
QueryLists ==
    { <<>>, << <<1, 2>> >>, << <<1, 2>>, <<3, 4>> >>, << <<1, 2>>, <<1>> >>,
      << <<1>> >>, << Vector(DefaultVecSize, 0) >>,
      << Vector(DefaultVecSize, 0), Vector(DefaultVecSize, 1000) >> }

\* num_cpus::get()
Cpus == {1, 2}

Targets == {Hot, All} \cup {Physical(b) : b \in BucketNames}

\* the commands a request is made of: CREATE DATABASE a WITH qkv_vec_size =
\* 2, CREATE BUCKET x INSIDE a, CREATE BUCKET y INSIDE a, an INSERT with a
\* key of width 1, a SCAN with no query, a SCAN with one query, and a text
\* that does not parse
Items ==
    { Parsed(CmdCreateDatabase(<<"a">>, <<VecSizeProp(2)>>)),
      Parsed(CmdCreateBucket(<<"a">>, <<"x">>)),
      Parsed(CmdCreateBucket(<<"a">>, <<"y">>)),
      Parsed(CmdInsert(<<"a">>, <<"x">>, Rows(<< <<1, 2>> >>))),
      Parsed(CmdScan(<<"a">>, Physical(<<"x">>), <<>>)),
      Parsed(CmdScan(<<"a">>, Physical(<<"x">>), << <<1, 2>> >>)),
      Unparsable }

Requests ==
    {LostRequest, BinaryRequest}
      \cup {TextRequest(items) : items \in SeqsUpTo(Items, MaxCommands)}

----------------------------------------------------------------------------
(* command.rs: Command::parse *)

\* A command text is a sequence of lexemes: the words, numbers and
\* punctuation characters that the scan of the characters separates.

Word(s) == [kind |-> "word", s |-> s]
Num(s) == [kind |-> "number", s |-> s]
Punct(s) == [kind |-> "punctuation", s |-> s]

KEYWORDS ==
    {"CREATE", "INSERT", "SCAN", "DATABASE", "BUCKET", "QUERIES", "KEYS",
     "VALUES", "IF", "NOT", "EXISTS", "WITH", "INTO", "INSIDE", "AND"}

\* to_uppercase / to_ascii_uppercase on the strings that occur in the texts
ToUppercase(s) ==
    CASE s = "inside" -> "INSIDE"
      [] s = "all" -> "ALL"
      [] s = "a" -> "A"
      [] s = "b" -> "B"
      [] s = "x" -> "X"
      [] s = "y" -> "Y"
      [] s = "qkv_vec_size" -> "QKV_VEC_SIZE"
      [] OTHER -> s

\* the value str::parse gives for the numerals written in the command texts
NumberValue(s) ==
    CASE s = "0" -> 0 [] s = "1" -> 1 [] s = "2" -> 2 [] s = "3" -> 3
      [] s = "4" -> 4 [] s = "5" -> 5 [] s = "1.5" -> 15 [] OTHER -> 0

\* the characters of the numerals written in the command texts
NumberChars(s) == IF s = "1.5" THEN <<"1", ".", "5">> ELSE <<s>>

\* value.contains('.'), on the characters of the string
ContainsDot(chars) == \E i \in 1..Len(chars) : chars[i] = "."

Digits == {"0", "1", "2", "3", "4", "5", "6", "7", "8", "9"}
AllDigits(chars) == \A i \in 1..Len(chars) : chars[i] \in Digits
Unsigned(chars) ==
    IF Len(chars) > 0 /\ chars[1] = "-" THEN Tail(chars) ELSE chars

\* str::parse::<i32>() is Ok: an optional sign and one digit or more (the
\* numerals of the texts are too short to leave the range of i32)
ParsesAsI32(chars) == Len(Unsigned(chars)) > 0 /\ AllDigits(Unsigned(chars))

\* str::parse::<f32>() is Ok: an optional sign and digits with at most one
\* `.` among them, one digit at least (no character of the texts spells an
\* exponent, inf or nan)
ParsesAsF32(chars) ==
    LET u == Unsigned(chars)
    IN \/ Len(u) > 0 /\ AllDigits(u)
       \/ \E d \in 1..Len(u) :
             /\ u[d] = "."
             /\ Len(u) > 1
             /\ AllDigits(SubSeq(u, 1, d - 1))
             /\ AllDigits(SubSeq(u, d + 1, Len(u)))

DigitValue(c) ==
    CASE c = "0" -> 0 [] c = "1" -> 1 [] c = "2" -> 2 [] c = "3" -> 3 [] c = "4" -> 4
      [] c = "5" -> 5 [] c = "6" -> 6 [] c = "7" -> 7 [] c = "8" -> 8 [] c = "9" -> 9

RECURSIVE DigitsValue(_)
DigitsValue(ds) ==
    IF Len(ds) = 0 THEN 0
    ELSE 10 * DigitsValue(SubSeq(ds, 1, Len(ds) - 1)) + DigitValue(ds[Len(ds)])

\* the value of a string that converts, in the units of NumberValue: the
\* number its digits spell, with its sign
CharsValue(chars) ==
    LET v == DigitsValue(SelectSeq(chars, LAMBDA c : c \in Digits))
    IN IF Unsigned(chars) # chars THEN -v ELSE v

\* a token: its type, its content, and for a number the characters of the
\* content
Token(ty, content) == [ty |-> ty, content |-> content, chars |-> <<>>]
NumberToken(content, chars) == [ty |-> "number", content |-> content, chars |-> chars]

\* .expect(..) on a string that does not convert: the thread panics
ExpectFailed == [kind |-> "Panic"]

\* the tokens of a text: a word whose upper case is a keyword becomes that
\* keyword in upper case, another word an identifier as written
Tokenize(text) ==
    [i \in 1..Len(text) |->
        IF text[i].kind = "word"
        THEN IF ToUppercase(text[i].s) \in KEYWORDS
             THEN Token("keyword", ToUppercase(text[i].s))
             ELSE Token("identifier", text[i].s)
        ELSE IF text[i].kind = "number"
        THEN NumberToken(text[i].s, NumberChars(text[i].s))
        ELSE Token(text[i].kind, text[i].s)]

UnexpectedToken(token) == [kind |-> "UnexpectedToken", token |-> token]
NoBucketInInsert == [kind |-> "NoBucketInInsert"]

\* a step of the parser: the value and the index of the next token, or the
\* error
POk(v, pos) == [ok |-> TRUE, value |-> v, pos |-> pos]
PErr(e) == [ok |-> FALSE, error |-> e]

IsPunct(tok, c) == tok.ty = "punctuation" /\ tok.content = c

\* parse_vec, the inner loop: the numbers of one vector up to its `]`
RECURSIVE ParseNumbers(_, _, _)
ParseNumbers(toks, i, numbers) ==
    IF i > Len(toks) THEN PErr(UnexpectedEOS)
    ELSE IF toks[i].content = "]"
    THEN IF ~IsPunct(toks[i], "]") THEN PErr(UnexpectedToken(toks[i].content))
         ELSE POk(numbers, i + 1)
    ELSE IF numbers # <<>> /\ ~IsPunct(toks[i], ",")
    THEN PErr(UnexpectedToken(toks[i].content))
    ELSE IF numbers # <<>> /\ i + 1 > Len(toks) THEN PErr(UnexpectedEOS)
    ELSE LET j == IF numbers # <<>> THEN i + 1 ELSE i
         IN IF toks[j].ty # "number" THEN PErr(UnexpectedToken(toks[j].content))
            ELSE IF ~ParsesAsF32(toks[j].chars) THEN PErr(ExpectFailed)
            ELSE ParseNumbers(toks, j + 1,
                              Append(numbers, CharsValue(toks[j].chars)))

\* parse_vec, the outer loop: after a first vector the `,` is checked and the
\* token behind it is taken from the iterator, but the test for `[` is still
\* made on the `,`
RECURSIVE ParseVectors(_, _, _)
ParseVectors(toks, i, data) ==
    IF i > Len(toks) THEN PErr(UnexpectedEOS)
    ELSE IF IsPunct(toks[i], ")") THEN POk(data, i + 1)
    ELSE IF data # <<>> /\ ~IsPunct(toks[i], ",")
    THEN PErr(UnexpectedToken(toks[i].content))
    ELSE IF data # <<>> /\ i + 1 > Len(toks) THEN PErr(UnexpectedEOS)
    ELSE IF ~IsPunct(toks[i], "[") THEN PErr(UnexpectedToken(toks[i].content))
    ELSE LET j == IF data # <<>> THEN i + 2 ELSE i + 1
             v == ParseNumbers(toks, j, <<>>)
         IN IF ~v.ok THEN v
            ELSE ParseVectors(toks, v.pos, Append(data, v.value))

\* Command::parse_vec
ParseVec(toks, i) ==
    IF i > Len(toks) THEN PErr(UnexpectedEOS)
    ELSE IF ~IsPunct(toks[i], "(") THEN PErr(UnexpectedToken(toks[i].content))
    ELSE ParseVectors(toks, i + 1, <<>>)

\* name = value of a WITH clause (the code has it twice, after WITH and
\* after AND)
ParseProperty(toks, i) ==
    IF i > Len(toks) THEN PErr(UnexpectedEOS)
    ELSE IF toks[i].ty # "identifier" THEN PErr(UnexpectedToken(toks[i].content))
    ELSE IF i + 1 > Len(toks) THEN PErr(UnexpectedEOS)
    ELSE IF ~IsPunct(toks[i + 1], "=") THEN PErr(UnexpectedToken(toks[i + 1].content))
    ELSE IF i + 2 > Len(toks) THEN PErr(UnexpectedEOS)
    ELSE IF toks[i + 2].ty # "number" THEN PErr(UnexpectedToken(toks[i + 2].content))
    ELSE IF /\ ContainsDot(toks[i + 2].chars)
            /\ ~ParsesAsF32(toks[i + 2].chars) THEN PErr(ExpectFailed)
    ELSE IF /\ ~ContainsDot(toks[i + 2].chars)
            /\ ~ParsesAsI32(toks[i + 2].chars) THEN PErr(ExpectFailed)
    ELSE POk(Property(toks[i].content,
                      IF ContainsDot(toks[i + 2].chars)
                      THEN Float(CharsValue(toks[i + 2].chars))
                      ELSE Integer(CharsValue(toks[i + 2].chars))),
             i + 3)

IsKeyword(toks, i, name) ==
    i <= Len(toks) /\ toks[i].ty = "keyword" /\ ToUppercase(toks[i].content) = name

RECURSIVE ParseAnd(_, _, _)
ParseAnd(toks, i, props) ==
    IF ~IsKeyword(toks, i, "AND") THEN POk(props, i)
    ELSE LET p == ParseProperty(toks, i + 1)
         IN IF ~p.ok THEN p ELSE ParseAnd(toks, p.pos, Append(props, p.value))

\* Command::parse_with_clause
ParseWithClause(toks, i) ==
    IF ~IsKeyword(toks, i, "WITH") THEN POk(<<>>, i)
    ELSE LET p == ParseProperty(toks, i + 1)
         IN IF ~p.ok THEN p ELSE ParseAnd(toks, p.pos, <<p.value>>)

\* AstRefData: bucket is an Option
AstRef(has_bucket, bucket, database) ==
    [has_bucket |-> has_bucket, bucket |-> bucket, database |-> database]

\* Command::parse_ref: an identifier, and behind INSIDE the content of the
\* next token, whatever its type
ParseRef(toks, i) ==
    IF i > Len(toks) THEN PErr(UnexpectedEOS)
    ELSE IF toks[i].ty # "identifier" THEN PErr(UnexpectedToken(toks[i].content))
    ELSE IF i + 1 <= Len(toks) /\ ToUppercase(toks[i + 1].content) = "INSIDE"
    THEN IF i + 2 > Len(toks) THEN PErr(UnexpectedEOS)
         ELSE POk(AstRef(TRUE, toks[i].content, toks[i + 2].content), i + 3)
    ELSE POk(AstRef(FALSE, "", toks[i].content), i + 1)

\* Command::force_keyword with Some(name)
ForceKeyword(name, toks, i) ==
    IF i > Len(toks) THEN PErr(UnexpectedEOS)
    ELSE IF toks[i].ty # "keyword" \/ toks[i].content # name
    THEN PErr(UnexpectedToken(toks[i].content))
    ELSE POk(toks[i].content, i + 1)

\* Command::force_keyword with None
ForceAnyKeyword(toks, i) ==
    IF i > Len(toks) THEN PErr(UnexpectedEOS)
    ELSE IF toks[i].ty # "keyword" THEN PErr(UnexpectedToken(toks[i].content))
    ELSE POk(toks[i].content, i + 1)

\* a String of the parser as a name of the Engine
NameOf(s) == <<s>>

\* a pairing that fills the shorter list with empty vectors
ZipEntries_Padded(keys, values) ==
    [i \in 1..Max(Len(keys), Len(values)) |->
        <<IF i <= Len(keys) THEN keys[i] ELSE <<>>,
          IF i <= Len(values) THEN values[i] ELSE <<>> >>]

\* zip(keys, values).collect()
ZipEntries(keys, values) ==
    [i \in 1..Min(Len(keys), Len(values)) |-> <<keys[i], values[i]>>]

\* a target that takes ALL and HOT in any case
ScanTarget_AnyCase(ref) ==
    IF ~ref.has_bucket THEN All
    ELSE IF ToUppercase(ref.bucket) = "ALL" THEN All
    ELSE IF ToUppercase(ref.bucket) = "HOT" THEN Hot
    ELSE Physical(NameOf(ref.bucket))

\* the bucket of a Scan command
ScanTarget(ref) ==
    IF ~ref.has_bucket THEN All
    ELSE IF ref.bucket = "ALL" THEN All
    ELSE IF ref.bucket = "HOT" THEN Hot
    ELSE Physical(NameOf(ref.bucket))

\* CREATE ..
ParseCreate(toks) ==
    LET entity == ForceAnyKeyword(toks, 2)
        ref == ParseRef(toks, 3)
        with == ParseWithClause(toks, ref.pos)
    IN IF ~entity.ok THEN Err(entity.error)
       ELSE IF ToUppercase(entity.value) \notin {"DATABASE", "BUCKET"}
       THEN Err(UnexpectedToken(ToUppercase(entity.value)))
       ELSE IF ~ref.ok THEN Err(ref.error)
       ELSE IF ToUppercase(entity.value) = "DATABASE" /\ ref.value.has_bucket
       THEN Err(UnexpectedToken("INSIDE"))
       ELSE IF ToUppercase(entity.value) = "BUCKET" /\ ~ref.value.has_bucket
       THEN IF ref.pos <= Len(toks) THEN Err(UnexpectedToken(toks[ref.pos].content))
            ELSE Err(UnexpectedEOS)
       ELSE IF ~with.ok THEN Err(with.error)
       ELSE IF ~ref.value.has_bucket
       THEN Ok(CmdCreateDatabase(NameOf(ref.value.database), with.value))
       ELSE Ok([CmdCreateBucket(NameOf(ref.value.database), NameOf(ref.value.bucket))
                  EXCEPT !.props = with.value])

\* INSERT ..
ParseInsert(toks) ==
    LET ref == ParseRef(toks, 3)
        kw1 == ForceKeyword("KEYS", toks, ref.pos)
        keys == ParseVec(toks, kw1.pos)
        kw2 == ForceKeyword("VALUES", toks, keys.pos)
        values == ParseVec(toks, kw2.pos)
        with == ParseWithClause(toks, values.pos)
    IN IF Len(toks) < 2 THEN Err(UnexpectedEOS)
       ELSE IF ToUppercase(toks[2].content) # "INTO"
       THEN Err(UnexpectedToken(toks[2].content))
       ELSE IF ~ref.ok THEN Err(ref.error)
       ELSE IF ~kw1.ok THEN Err(kw1.error)
       ELSE IF ~keys.ok THEN Err(keys.error)
       ELSE IF ~kw2.ok THEN Err(kw2.error)
       ELSE IF ~values.ok THEN Err(values.error)
       ELSE IF ~with.ok THEN Err(with.error)
       ELSE IF ~ref.value.has_bucket THEN Err(NoBucketInInsert)
       ELSE Ok([CmdInsert(NameOf(ref.value.database), NameOf(ref.value.bucket),
                          ZipEntries(keys.value, values.value))
                  EXCEPT !.props = with.value])

\* SCAN ..
ParseScan(toks) ==
    LET ref == ParseRef(toks, 2)
        kw == ForceKeyword("QUERIES", toks, ref.pos)
        queries == ParseVec(toks, kw.pos)
        with == ParseWithClause(toks, queries.pos)
    IN IF ~ref.ok THEN Err(ref.error)
       ELSE IF ~kw.ok THEN Err(kw.error)
       ELSE IF ~queries.ok THEN Err(queries.error)
       ELSE IF ~with.ok THEN Err(with.error)
       ELSE Ok([CmdScan(NameOf(ref.value.database), ScanTarget(ref.value),
                        queries.value)
                  EXCEPT !.props = with.value])

\* Command::parse behind the tokenizer
ParseTokens(toks) ==
    IF Len(toks) = 0 THEN Err(UnexpectedEOS)
    ELSE IF toks[1].ty # "keyword" THEN Err(UnexpectedToken(toks[1].content))
    ELSE IF ToUppercase(toks[1].content) = "CREATE" THEN ParseCreate(toks)
    ELSE IF ToUppercase(toks[1].content) = "INSERT" THEN ParseInsert(toks)
    ELSE IF ToUppercase(toks[1].content) = "SCAN" THEN ParseScan(toks)
    ELSE Err(UnexpectedToken(ToUppercase(toks[1].content)))

\* what the caller of a parse function gets: a panic unwinds through the `?`s
Unwound(r) == IF r.tag = "Err" /\ r.error.kind = "Panic" THEN Panic ELSE r

\* Command::parse: Ok(command), Err(parse error) or a panic
CommandParse(text) == Unwound(ParseTokens(Tokenize(text)))

----------------------------------------------------------------------------
(* command.rs: the tokenizer and parse_commands on characters.  A character *)
(* is a string of length 1 and a text a sequence of characters.            *)

\* char::is_alphabetic, is_numeric, is_alphanumeric and is_whitespace on the
\* characters of the texts
Letters ==
    {"A", "B", "C", "D", "E", "H", "I", "N", "Q", "R", "S", "T", "U", "W", "a", "k"}
IsAlphabetic(c) == c \in Letters
IsNumeric(c) == c \in Digits
IsAlphanumeric(c) == IsAlphabetic(c) \/ IsNumeric(c)
IsWhitespace(c) == c \in {" ", NL}

\* ",.[](){}=;".contains(c)
PunctuationChars == {",", ".", "[", "]", "(", ")", "{", "}", "=", ";"}

\* buff (with its characters), token_type and tokens
LexStart == [buff |-> "", chars |-> <<>>, ty |-> "unknown", tokens |-> <<>>]

\* the last branch of the tokenizer up to buff.clear(): the token in buff,
\* if any, is pushed
Flush(st) ==
    LET ty == IF ToUppercase(st.buff) \in KEYWORDS THEN "keyword" ELSE st.ty
    IN [LexStart EXCEPT !.tokens =
          IF ty = "keyword" THEN Append(st.tokens, Token("keyword", ToUppercase(st.buff)))
          ELSE IF ty = "identifier" /\ st.buff # ""
          THEN Append(st.tokens, Token("identifier", st.buff))
          ELSE IF ty = "number" THEN Append(st.tokens, NumberToken(st.buff, st.chars))
          ELSE st.tokens]

\* the loop of the tokenizer from character i on (token_type is never
\* Punctuation); what is in buff at the end of the text is dropped
RECURSIVE Lex(_, _, _)
Lex(content, i, st) ==
    IF i > Len(content) THEN [ok |-> TRUE, tokens |-> st.tokens]
    ELSE LET c == content[i]
             empty == st.buff = ""
             pushed == [st EXCEPT !.buff = @ \o c, !.chars = Append(@, c)]
         IN IF empty /\ (IsAlphabetic(c) \/ c = "_")
            THEN Lex(content, i + 1, [pushed EXCEPT !.ty = "identifier"])
            ELSE IF (empty /\ IsNumeric(c)) \/ c = "-"
            THEN Lex(content, i + 1, [pushed EXCEPT !.ty = "number"])
            ELSE IF (~empty /\ IsAlphanumeric(c)) \/ c = "_"
            THEN Lex(content, i + 1, pushed)
            ELSE IF (~empty /\ IsNumeric(c)) \/ c = "."
            THEN IF c = "." /\ ContainsDot(st.chars)
                 THEN [ok |-> FALSE, error |-> UnexpectedToken(c)]
                 ELSE Lex(content, i + 1, pushed)
            ELSE IF c \in PunctuationChars
            THEN Lex(content, i + 1,
                     [Flush(st) EXCEPT !.tokens = Append(@, Token("punctuation", c))])
            ELSE IF IsWhitespace(c) THEN Lex(content, i + 1, Flush(st))
            ELSE [ok |-> FALSE, error |-> UnexpectedToken(c)]

\* Command::parse on the characters of a command
CommandParseStr(content) ==
    LET l == Lex(content, 1, LexStart)
    IN IF ~l.ok THEN Err(l.error) ELSE Unwound(ParseTokens(l.tokens))

\* parse_commands before the loop: commands, prev, is_comment, and the index
\* of the next character
ParseCommandsStart ==
    [i |-> 1, prev |-> <<>>, is_comment |-> FALSE, commands |-> <<>>,
     returned |-> FALSE, value |-> Ok(<<>>)]

\* one turn of the loop of parse_commands, on the character content[st.i];
\* behind the last character the function returns Ok(commands)
ParseCommandsTurn(content, st) ==
    IF st.i > Len(content)
    THEN [st EXCEPT !.returned = TRUE, !.value = Ok(st.commands)]
    ELSE LET c == content[st.i]
             next == [st EXCEPT !.i = @ + 1]
         IN IF c = "/" /\ Len(st.prev) > 0 /\ st.prev[Len(st.prev)] = "/"
            THEN [next EXCEPT !.is_comment = TRUE,
                              !.prev = SubSeq(@, 1, Len(@) - 1)]
            ELSE IF c = NL /\ st.is_comment THEN [next EXCEPT !.is_comment = FALSE]
            ELSE IF c = ";" /\ ~st.is_comment
            THEN LET r == CommandParseStr(Append(st.prev, c))
                 IN IF r.tag # "Ok" THEN [next EXCEPT !.returned = TRUE, !.value = r]
                    ELSE [next EXCEPT !.commands = Append(@, r.value),
                                      !.prev = <<>>]
            ELSE IF ~st.is_comment THEN [next EXCEPT !.prev = Append(@, c)]
            ELSE next

----------------------------------------------------------------------------
(* Command texts *)

RECURSIVE SepBy(_, _)
\* the texts of parts, with the lexeme sep between them
SepBy(parts, sep) ==
    IF Len(parts) = 0 THEN <<>>
    ELSE IF Len(parts) = 1 THEN parts[1]
    ELSE parts[1] \o <<sep>> \o SepBy(Tail(parts), sep)

\* `[n, n, ..]` and `([..], [..], ..)`
VectorText(numbers) ==
    <<Punct("[")>> \o SepBy([i \in 1..Len(numbers) |-> <<Num(numbers[i])>>], Punct(","))
                   \o <<Punct("]")>>
VecListText(vectors) ==
    <<Punct("(")>> \o SepBy([i \in 1..Len(vectors) |-> VectorText(vectors[i])], Punct(","))
                   \o <<Punct(")")>>

\* the vectors written in the texts, and the lists of up to MaxVecs of them
VectorLiterals == { <<"1", "2">>, <<"3">> }
VecLists == SeqsUpTo(VectorLiterals, MaxVecs)

\* what the parser must make of a list
ValuesOfList(vectors) ==
    [i \in 1..Len(vectors) |-> [j \in 1..Len(vectors[i]) |-> NumberValue(vectors[i][j])]]

\* references: a bare identifier, `bucket INSIDE database` with the keyword
\* in either case, and the names ALL, HOT and all in the place of the bucket
BareRefs == { <<Word("a")>>, <<Word("x")>> }
InsideRefs ==
    { <<Word(b), Word(i), Word(d)>> :
        b \in {"x", "ALL", "HOT", "all"}, i \in {"INSIDE", "inside"}, d \in {"a"} }
      \cup { <<Word("x"), Word("INSIDE"), Word("b")>> }

WithTexts ==
    { <<>>,
      <<Word("WITH"), Word("qkv_vec_size"), Punct("="), Num("2")>>,
      <<Word("WITH"), Word("qkv_vec_size"), Punct("="), Num("1.5"),
        Word("AND"), Word("qkv_vec_size"), Punct("="), Num("2")>>,
      <<Word("WITH"), Word("qkv_vec_size"), Num("2")>> }

CreateRefs ==
    BareRefs \cup { <<Word("x"), Word("INSIDE"), Word("a")>>,
                    <<Word("y"), Word("inside"), Word("a")>>,
                    <<Word("x"), Word("INSIDE"), Word("b")>> }

InsertRefs ==
    { <<Word("x")>>, <<Word("x"), Word("INSIDE"), Word("a")>>,
      <<Word("y"), Word("inside"), Word("b")>> }

CreateText(e, r, w) == <<Word("CREATE"), Word(e)>> \o r \o w \o <<Punct(";")>>

InsertText(r, ks, vs) ==
    <<Word("INSERT"), Word("INTO")>> \o r \o <<Word("KEYS")>> \o VecListText(ks)
       \o <<Word("VALUES")>> \o VecListText(vs) \o <<Punct(";")>>

ScanText(r, qs) ==
    <<Word("SCAN")>> \o r \o <<Word("QUERIES")>> \o VecListText(qs) \o <<Punct(";")>>

\* texts that are no command
OtherTexts ==
    { <<Punct(";")>>, <<Word("a"), Punct(";")>>, <<Word("WITH"), Punct(";")>>,
      <<Word("INSERT"), Word("x"), Punct(";")>>,
      <<Word("SCAN"), Word("a"), Word("QUERIES"), Punct("["), Num("1"), Punct("]"),
        Punct(";")>>,
      <<Word("SCAN"), Word("a"), Word("QUERIES"), Punct("("), Punct("["), Num("1"),
        Num("2"), Punct("]"), Punct(")"), Punct(";")>> }

\* a command text together with what it was written from: the statement,
\* the word after CREATE, the reference, the WITH clause and the vec_lists
\* (KEYS or QUERIES in ks, VALUES in vs)
Source(form, entity, ref, with, ks, vs, text) ==
    [form |-> form, entity |-> entity, ref |-> ref, with |-> with,
     ks |-> ks, vs |-> vs, text |-> text]

NoSource == Source("none", "", <<>>, <<>>, <<>>, <<>>, <<>>)

\* texts with a token left over behind a command, and with a number in the
\* place of the database behind INSIDE
LooseSources ==
    { Source("other", "", <<Word("a")>>, <<>>, <<>>, <<>>,
             <<Word("CREATE"), Word("DATABASE"), Word("a"), Word("b"), Punct(";")>>),
      Source("other", "", <<Word("y"), Word("INSIDE"), Num("2")>>, <<>>, <<>>, <<>>,
             <<Word("CREATE"), Word("BUCKET"), Word("y"), Word("INSIDE"), Num("2"),
               Punct(";")>>),
      Source("other", "", <<Word("a")>>, <<>>, <<>>, <<>>,
             <<Word("SCAN"), Word("a"), Word("QUERIES"), Punct("("), Punct(")"),
               Word("a"), Punct(";")>>) }

Sources ==
    { Source("create", e, r, w, <<>>, <<>>, CreateText(e, r, w)) :
        e \in {"DATABASE", "BUCKET", "KEYS", "a"}, r \in CreateRefs, w \in WithTexts }
    \cup { Source("insert", "", r, <<>>, ks, vs, InsertText(r, ks, vs)) :
             r \in InsertRefs, ks \in VecLists, vs \in VecLists }
    \cup { Source("scan", "", r, <<>>, qs, <<>>, ScanText(r, qs)) :
             r \in BareRefs \cup InsideRefs, qs \in VecLists }
    \cup { Source("other", "", <<>>, <<>>, <<>>, <<>>, t) : t \in OtherTexts }
    \cup LooseSources

\* nothing parsed yet
NoParse == [src |-> NoSource, out |-> Err(UnexpectedEOS), executed |-> FALSE]

----------------------------------------------------------------------------
(* The state machine *)

EmptyDisk ==
    [p \in {<<>>, <<DbInfoIndex>>} |-> IF p = <<>> THEN Dir ELSE File(<<>>)]

\* Engine::new on a data directory that holds an empty db_info.index
Init ==
    /\ disk = EmptyDisk
    /\ storage = StorageFromDisk(disk).databases
    /\ pc = "idle"
    /\ fold = NoFold
    /\ op = [name |-> "new"]
    /\ result = Unit
    /\ panicked = FALSE
    /\ conn = NoConn
    /\ parse = NoParse

Running == ~panicked /\ pc = "idle"

\* a call that returned or panicked within one step
Finish(o, what) ==
    /\ disk' = o.disk
    /\ storage' = o.storage
    /\ result' = o.result
    /\ panicked' = (o.result.tag = "Panic")
    /\ op' = what
    /\ pc' = "idle"
    /\ fold' = NoFold

\* the bucket names of a database, none when the database is missing
BucketsOf(st, database) ==
    IF database \in DOMAIN st THEN DOMAIN st[database].buckets ELSE {}

CreateDatabaseStep(name, props, order) ==
    /\ Running
    /\ Finish(ExecCreateDatabase(storage, disk, name, props, order),
              [name |-> "CreateDatabase", database |-> name])

CreateDatabase ==
    \E name \in DbNames, props \in PropertyLists :
       \E order \in Orderings(DOMAIN storage \cup {name}) :
          CreateDatabaseStep(name, props, order) /\ UNCHANGED <<conn, parse>>

CreateBucketStep(database, name, order) ==
    /\ Running
    /\ Finish(ExecCreateBucket(storage, disk, database, name, order),
              [name |-> "CreateBucket", database |-> database, bucket |-> name])

CreateBucket ==
    \E database \in DbNames, name \in BucketNames :
       \E order \in Orderings(BucketsOf(storage, database) \cup {name}) :
          CreateBucketStep(database, name, order) /\ UNCHANGED <<conn, parse>>

InsertStep(database, bucket, entries) ==
    /\ Running
    /\ Finish(ExecInsert(storage, disk, database, bucket, entries),
              [name |-> "Insert", database |-> database, bucket |-> bucket,
               rows |-> Len(entries)])

Insert ==
    \E database \in DbNames, bucket \in BucketNames, entries \in Batches :
       InsertStep(database, bucket, entries) /\ UNCHANGED <<conn, parse>>

Dummy ==
    /\ Running
    /\ Finish(ExecDummy(storage, disk), [name |-> "Dummy"])
    /\ UNCHANGED <<conn, parse>>

\* the bucket handle of a running fold takes a new value
SetBucket(database, name, bucket) ==
    storage' = [storage EXCEPT ![database].buckets[name] = bucket]

\* a fold starts: ReduceBegin and the first pair of reads
StartFold(database, name, batch_size, kernel, q_shape, what) ==
    LET b == ReduceBegin(database, name, storage[database].buckets[name],
                         batch_size, kernel, q_shape)
        path == <<database, name>>
    IN \E nk \in KeyReads(b.fold, disk, path, b.bucket),
          nv \in ValueReads(b.fold, disk, path, b.bucket) :
          LET r == ReadBoth(b.fold, disk, path, b.bucket, nk, nv)
          IN /\ fold' = r.fold
             /\ SetBucket(database, name, r.bucket)
             /\ pc' = "fold"
             /\ op' = what
             /\ result' = Unit
             /\ UNCHANGED <<disk, panicked>>

\* Engine::scan: batch_size = num_cpus::get() * 1024
ScanBatchSize(cpus) == cpus * RowsPerCpu

ScanStep(database, target, queries, cpus) ==
    /\ Running
    /\ LET s == ExecScan(storage, disk, database, target, queries)
           what == [name |-> "Scan", database |-> database, target |-> target,
                    queries |-> Len(queries)]
       IN IF s.done THEN Finish(s.outcome, what)
          ELSE StartFold(database, target.name, ScanBatchSize(cpus),
                         "attention", s.q_shape, what)

Scan ==
    \E database \in DbNames, target \in Targets, queries \in QueryLists,
       cpus \in Cpus :
       ScanStep(database, target, queries, cpus) /\ UNCHANGED <<conn, parse>>

\* one turn of the loop of the running fold; at the break the fold returns,
\* and a Scan returns the rows of the folded matrix
FoldStep ==
    /\ ~panicked /\ pc = "fold"
    /\ LET path == <<fold.database, fold.bucket>>
           bucket == storage[fold.database].buckets[fold.bucket]
       IN \E nk \in KeyReads(fold, disk, path, bucket),
             nv \in ValueReads(fold, disk, path, bucket) :
             LET r == ReduceIteration(fold, disk, path, bucket, nk, nv)
             IN /\ fold' = r.fold
                /\ SetBucket(fold.database, fold.bucket, r.bucket)
                /\ pc' = IF r.status = "Continue" THEN "fold" ELSE "idle"
                /\ panicked' = (r.status = "Panic")
                /\ result' = IF r.status = "Panic" THEN Panic
                             ELSE IF r.status = "Break" /\ fold.kernel = "attention"
                             THEN Ok(Some(Matrix(fold.q_shape, fold.calls)))
                             ELSE Unit
                /\ UNCHANGED <<disk, op, conn, parse>>

\* Engine::new after the process ended: Storage::from_disk(..).unwrap()
Restart ==
    /\ panicked \/ pc = "idle"
    /\ LET r == StorageFromDisk(disk)
       IN /\ storage' = r.databases
          /\ panicked' = (r.status # "Ok")
          /\ result' = IF r.status = "Ok" THEN Unit ELSE Panic
    /\ op' = [name |-> "new"]
    /\ pc' = "idle"
    /\ fold' = NoFold
    /\ UNCHANGED <<disk, conn, parse>>

\* total number of floats in the keys.bin files
RECURSIVE StoredFloats(_, _)
StoredFloats(d, paths) ==
    IF paths = {} THEN 0
    ELSE LET p == CHOOSE q \in paths : TRUE
         IN (IF Len(p) = 3 /\ p[3] = KeysBin THEN Len(d[p].data) ELSE 0)
              + StoredFloats(d, paths \ {p})

\* Bucket::insert_kv called on an open bucket (as the loader tool does), with
\* rows of the bucket's width
DirectInsertKvStep(database, name, data) ==
    /\ Running
    /\ StoredFloats(disk, DOMAIN disk) < MaxStoredFloats
    /\ database \in DOMAIN storage
    /\ name \in DOMAIN storage[database].buckets
    /\ \A i \in 1..Len(data) :
          /\ Len(data[i][1]) = storage[database].buckets[name].qkv_vec_size
          /\ Len(data[i][2]) = storage[database].buckets[name].qkv_vec_size
    /\ LET r == BucketInsertKv(disk, <<database, name>>,
                               storage[database].buckets[name], data)
       IN /\ disk' = r.disk
          /\ SetBucket(database, name, r.bucket)
          /\ op' = [name |-> "insert_kv", database |-> database,
                    bucket |-> name, rows |-> Len(data)]
          /\ result' = Unit
          /\ fold' = NoFold
          /\ UNCHANGED <<pc, panicked>>

DirectInsertKv ==
    \E database \in DbNames, name \in BucketNames, data \in Batches :
       DirectInsertKvStep(database, name, data) /\ UNCHANGED <<conn, parse>>

\* Bucket::clear called on an open bucket
DirectClear ==
    /\ Running
    /\ \E database \in DOMAIN storage :
         \E name \in DOMAIN storage[database].buckets :
            LET r == BucketClear(disk, <<database, name>>,
                                 storage[database].buckets[name])
            IN /\ disk' = r.disk
               /\ SetBucket(database, name, r.bucket)
               /\ op' = [name |-> "clear", database |-> database, bucket |-> name]
               /\ result' = Unit
               /\ fold' = NoFold
               /\ UNCHANGED <<pc, panicked, conn, parse>>

\* Bucket::initialize called on the path of a bucket; the caller goes on with
\* the Bucket it returns
DirectInitialize ==
    /\ Running
    /\ \E database \in DOMAIN storage :
         \E name \in DOMAIN storage[database].buckets :
            LET r == BucketInitialize(disk, <<database, name>>,
                                      storage[database].conf)
            IN /\ disk' = r.disk
               /\ IF r.ok THEN SetBucket(database, name, r.bucket)
                          ELSE UNCHANGED storage
               /\ op' = [name |-> "initialize", database |-> database,
                         bucket |-> name]
               /\ result' = IF r.ok THEN Unit ELSE Err([kind |-> "Io"])
               /\ fold' = NoFold
               /\ UNCHANGED <<pc, panicked, conn, parse>>

\* Bucket::reduce_kv_batched called on an open bucket with a recording kernel
DirectReduce ==
    /\ Running
    /\ \E database \in DOMAIN storage :
         \E name \in DOMAIN storage[database].buckets, batch_size \in 1..MaxBatch :
            StartFold(database, name, batch_size, "record", <<0, 0>>,
                      [name |-> "reduce_kv_batched", database |-> database,
                       bucket |-> name, batch_size |-> batch_size])
    /\ UNCHANGED <<conn, parse>>

\* Bucket::reduce_kv_batched called with batch_size = 0
DirectReduceZero ==
    /\ Running
    /\ \E database \in DOMAIN storage :
         \E name \in DOMAIN storage[database].buckets :
            StartFold(database, name, 0, "record", <<0, 0>>,
                      [name |-> "reduce_kv_batched", database |-> database,
                       bucket |-> name, batch_size |-> 0])
    /\ UNCHANGED <<conn, parse>>

\* the commands of the Engine, from an empty catalog
NextEngine ==
    \/ CreateDatabase
    \/ CreateBucket
    \/ Insert
    \/ Scan
    \/ FoldStep
    \/ Dummy
    \/ Restart

SpecEngine == Init /\ [][NextEngine]_vars

\* a catalog of one database with one bucket, as CREATE DATABASE a [WITH
\* qkv_vec_size = 2]; CREATE BUCKET x INSIDE a; leave it
InitBucket ==
    \E props \in {<<>>, <<Property("qkv_vec_size", Integer(2))>>} :
       LET d1 == ExecCreateDatabase(NoDatabases, EmptyDisk, <<"a">>, props, <<<<"a">>>>)
           d2 == ExecCreateBucket(d1.storage, d1.disk, <<"a">>, <<"x">>, <<<<"x">>>>)
       IN /\ disk = d2.disk
          /\ storage = d2.storage
          /\ pc = "idle"
          /\ fold = NoFold
          /\ op = [name |-> "CreateBucket", database |-> <<"a">>, bucket |-> <<"x">>]
          /\ result = d2.result
          /\ panicked = FALSE
          /\ conn = NoConn
          /\ parse = NoParse

\* the public operations of Bucket and the Scan command, on that catalog
Next ==
    \/ DirectInsertKv
    \/ DirectClear
    \/ DirectInitialize
    \/ DirectReduce
    \/ Scan
    \/ FoldStep
    \/ Restart

Spec == InitBucket /\ [][Next]_vars

\* the folds of a bucket of width 2, with every batch size from 0 on.  The
\* task that awaits reduce_kv_batched is polled until the call is over and
\* every read completes, so a turn of the loop that can be taken is taken.
InitFold ==
    /\ InitBucket
    /\ storage[<<"a">>].conf.qkv_vec_size = 2

NextFold ==
    \/ DirectInsertKv
    \/ DirectClear
    \/ DirectReduce
    \/ DirectReduceZero
    \/ Scan
    \/ FoldStep

SpecFold == InitFold /\ [][NextFold]_vars /\ WF_vars(FoldStep)

----------------------------------------------------------------------------
(* create_database and create_bucket, one file-system call at a time, on a *)
(* machine that can stop between any two calls                             *)

CreateDirAllCall(path) == [call |-> "create_dir_all", path |-> path, data |-> <<>>]
WriteCall(path, data) == [call |-> "write", path |-> path, data |-> data]
OpenCreateCall(path) == [call |-> "open", path |-> path, data |-> <<>>]

\* what a call does to the disk
FsCall(d, c) ==
    IF c.call = "create_dir_all" THEN CreateDirAll(d, c.path)
    ELSE IF c.call = "write" THEN WriteFile(d, c.path, c.data)
    ELSE OpenCreate(d, c.path)

\* the calls of Database::initialize, in program order
DatabaseInitializeCalls(dir, conf) ==
    << CreateDirAllCall(dir),
       WriteCall(Append(dir, BucketInfoIndex), <<>>),
       WriteCall(Append(dir, ConfBc), Serialize(conf.qkv_vec_size)) >>

\* the calls of Bucket::initialize, in program order
BucketInitializeCalls(path) ==
    << CreateDirAllCall(path), OpenCreateCall(KeysPath(path)),
       OpenCreateCall(ValuesPath(path)) >>

\* the calls of Storage::create_database for a new name
StorageCreateDatabaseCalls(name, conf, order) ==
    DatabaseInitializeCalls(<<name>>, conf)
      \o << WriteCall(<<DbInfoIndex>>, DbIndexContent(order)) >>

\* a create_bucket that rewrites the index before it creates the bucket
DatabaseCreateBucketCalls_IndexFirst(dir, name, order) ==
    << WriteCall(Append(dir, BucketInfoIndex), BucketIndexContent(order)) >>
      \o BucketInitializeCalls(Append(dir, name))

\* the calls of Database::create_bucket for a new name
DatabaseCreateBucketCalls(dir, name, order) ==
    BucketInitializeCalls(Append(dir, name))
      \o << WriteCall(Append(dir, BucketInfoIndex), BucketIndexContent(order)) >>

\* names given to create_bucket: the bucket names, and the name of a file
\* that every database directory holds
StepBucketNames == BucketNames \cup {ConfBc}

AlreadyExists == [tag |-> "Err", error |-> [kind |-> "AlreadyExists"]]

\* Storage::create_database is called: Err for a name of the map, else its
\* file-system calls are ahead
StorageCreateDatabaseCall ==
    /\ Running
    /\ \E name \in DbNames, w \in {2, DefaultVecSize} :
         \E order \in Orderings(DOMAIN storage \cup {name}) :
            IF name \in DOMAIN storage
            THEN /\ result' = AlreadyExists
                 /\ op' = [name |-> "create_database", database |-> name,
                           bucket |-> <<>>, qkv_vec_size |-> w, calls |-> <<>>]
                 /\ UNCHANGED pc
            ELSE /\ op' = [name |-> "create_database", database |-> name,
                           bucket |-> <<>>, qkv_vec_size |-> w,
                           calls |-> StorageCreateDatabaseCalls(
                                        name, [qkv_vec_size |-> w], order)]
                 /\ pc' = "calls"
                 /\ result' = Unit
    /\ UNCHANGED <<disk, storage, fold, panicked, conn, parse>>

\* Database::create_bucket is called on a database of the map
DatabaseCreateBucketCall ==
    /\ Running
    /\ \E database \in DOMAIN storage, name \in StepBucketNames :
         \E order \in Orderings(DOMAIN storage[database].buckets \cup {name}) :
            IF name \in DOMAIN storage[database].buckets
            THEN /\ result' = AlreadyExists
                 /\ op' = [name |-> "create_bucket", database |-> database,
                           bucket |-> name,
                           qkv_vec_size |-> storage[database].conf.qkv_vec_size,
                           calls |-> <<>>]
                 /\ UNCHANGED pc
            ELSE /\ op' = [name |-> "create_bucket", database |-> database,
                           bucket |-> name,
                           qkv_vec_size |-> storage[database].conf.qkv_vec_size,
                           calls |-> DatabaseCreateBucketCalls(<<database>>, name, order)]
                 /\ pc' = "calls"
                 /\ result' = Unit
    /\ UNCHANGED <<disk, storage, fold, panicked, conn, parse>>

\* the map after the insert of the running call
Inserted(st, o) ==
    IF o.name = "create_database"
    THEN [n \in DOMAIN st \cup {o.database} |->
            IF n = o.database
            THEN NewDatabase([qkv_vec_size |-> o.qkv_vec_size], NoBuckets)
            ELSE st[n]]
    ELSE [st EXCEPT ![o.database].buckets =
            [n \in DOMAIN @ \cup {o.bucket} |->
               IF n = o.bucket THEN NewBucket(st[o.database].conf) ELSE @[n]]]

\* the next file-system call of the running create_database or
\* create_bucket: a failed call is unwrapped, the last call is followed by
\* the return
FsStep ==
    /\ ~panicked /\ pc = "calls"
    /\ LET r == FsCall(disk, Head(op.calls))
           last == Len(op.calls) = 1
       IN /\ disk' = r.disk
          /\ op' = [op EXCEPT !.calls = Tail(@)]
          /\ panicked' = ~r.ok
          /\ pc' = IF r.ok /\ ~last THEN "calls" ELSE "idle"
          /\ storage' = IF r.ok /\ last THEN Inserted(storage, op) ELSE storage
          /\ result' = IF ~r.ok THEN Panic ELSE Unit
    /\ UNCHANGED <<fold, conn, parse>>

\* the machine stops, between two calls or at rest, and the server is
\* started again: Engine::new, Storage::from_disk(..).unwrap()
Crash ==
    /\ LET r == StorageFromDisk(disk)
       IN /\ storage' = r.databases
          /\ panicked' = (r.status # "Ok")
          /\ result' = IF r.status = "Ok" THEN Unit ELSE Panic
    /\ op' = [name |-> "new", database |-> <<>>, bucket |-> <<>>,
              qkv_vec_size |-> 0, calls |-> <<>>]
    /\ pc' = "idle"
    /\ UNCHANGED <<disk, fold, conn, parse>>

NextSteps ==
    \/ StorageCreateDatabaseCall
    \/ DatabaseCreateBucketCall
    \/ FsStep
    \/ Crash

SpecSteps == Init /\ [][NextSteps]_vars

----------------------------------------------------------------------------
(* The server: main's accept loop around the Engine *)

\* a connection is accepted and its request read and parsed
ServerAccept ==
    /\ Running
    /\ conn.phase = "accept"
    /\ \E req \in Requests :
         \E n \in (IF req.kind = "text" /\ ~ParseCommands(req.items).ok
                   THEN 0..2 ELSE {2}) :
            conn' = AcceptRequest(req, n)
    /\ UNCHANGED <<engine, parse>>

\* engine.execute(command) for the next command of the request
ExecuteStep(c) ==
    \/ /\ c.kind = "CreateDatabase"
       /\ \E order \in Orderings(DOMAIN storage \cup {c.database}) :
             CreateDatabaseStep(c.database, c.props, order)
    \/ /\ c.kind = "CreateBucket"
       /\ \E order \in Orderings(BucketsOf(storage, c.database) \cup {c.bucket}) :
             CreateBucketStep(c.database, c.bucket, order)
    \/ /\ c.kind = "Insert"
       /\ InsertStep(c.database, c.bucket, c.entries)
    \/ /\ c.kind = "Scan"
       /\ \E cpus \in Cpus : ScanStep(c.database, c.target, c.queries, cpus)

ServerExecute ==
    /\ conn.phase = "loop"
    /\ conn.todo # <<>>
    /\ ExecuteStep(Head(conn.todo))
    /\ conn' = [conn EXCEPT !.todo = Tail(@), !.current = Head(conn.todo),
                            !.phase = "executed"]
    /\ UNCHANGED parse

\* execute returned; conn.executed records the command and its return
ServerAfter ==
    /\ Running
    /\ conn.phase = "executed"
    /\ \E n \in (IF result.tag = "Err" THEN WriteOutcomes(conn) ELSE {2}) :
          conn' = [AfterCommand(conn, result, n) EXCEPT
                     !.executed = Append(@, [cmd |-> conn.current,
                                             result |-> result])]
    /\ UNCHANGED <<engine, parse>>

\* the for loop is over
ServerRespond ==
    /\ Running
    /\ conn.phase = "loop"
    /\ conn.todo = <<>>
    /\ \E n \in (IF conn.error THEN {2} ELSE WriteOutcomes(conn)) :
          conn' = Respond(conn, n)
    /\ UNCHANGED <<engine, parse>>

NextServer ==
    \/ ServerAccept
    \/ ServerExecute
    \/ FoldStep
    \/ ServerAfter
    \/ ServerRespond

SpecServer == Init /\ [][NextServer]_vars

----------------------------------------------------------------------------
(* The server on a data directory whose index files can become unwritable *)

\* the index files on disk
IndexPaths(d) ==
    {p \in DOMAIN d : IsFile(d, p) /\ p[Len(p)] \in {DbInfoIndex, BucketInfoIndex}}

\* something outside the server puts a directory in the place of an index
\* file: from then on tokio::fs::write on that path returns an I/O error
BlockIndex ==
    /\ ~panicked
    /\ \E p \in IndexPaths(disk) : disk' = Put(disk, p, Dir)
    /\ UNCHANGED <<storage, pc, fold, op, result, panicked, conn, parse>>

NextFault ==
    \/ NextServer
    \/ BlockIndex

SpecFault == Init /\ [][NextFault]_vars

----------------------------------------------------------------------------
(* The parser in front of the Engine, as for the commands of main's init file *)

\* Command::parse on the next command text
ParseText ==
    /\ Running
    /\ parse = NoParse
    /\ \E src \in Sources :
          parse' = [src |-> src, out |-> CommandParse(src.text), executed |-> FALSE]
    /\ UNCHANGED <<engine, conn>>

\* engine.execute on the command that was parsed
ExecuteParsed ==
    /\ parse.out.tag = "Ok"
    /\ ~parse.executed
    /\ ExecuteStep(parse.out.value)
    /\ parse' = [parse EXCEPT !.executed = TRUE]
    /\ UNCHANGED conn

\* the command is done with: it did not parse, or execute returned
NextText ==
    /\ Running
    /\ parse # NoParse
    /\ parse.out.tag = "Err" \/ parse.executed
    /\ parse' = NoParse
    /\ UNCHANGED <<engine, conn>>

NextParse ==
    \/ ParseText
    \/ ExecuteParsed
    \/ FoldStep
    \/ NextText

SpecParse == InitBucket /\ [][NextParse]_vars

----------------------------------------------------------------------------
(* parse_commands as a function of the characters of a text *)

\* SCAN a QUERIES([ run ]);
VectorContext(run) ==
    <<"S", "C", "A", "N", " ", "a", " ", "Q", "U", "E", "R", "I", "E", "S", "(", "[">>
      \o run \o <<"]", ")", ";">>

\* CREATE DATABASE a WITH k= run ;
WithContext(run) ==
    <<"C", "R", "E", "A", "T", "E", " ", "D", "A", "T", "A", "B", "A", "S", "E", " ",
      "a", " ", "W", "I", "T", "H", " ", "k", "=">> \o run \o <<";">>

\* the runs of characters written where the grammar has a number
RunChars == {"1", "a", "-", "."}
Runs == SeqsUpTo(RunChars, MaxRun)

\* two commands, and what is written into them: comments that end with a
\* newline or with the text, with and without a `;`, and a single `/`
TwoCommands ==
    <<"S", "C", "A", "N", " ", "a", " ", "Q", "U", "E", "R", "I", "E", "S", "(", ")",
      ";", "S", "C", "A", "N", " ", "a", ";">>
Comments ==
    { <<"/", "/", NL>>, <<"/", "/", "a", ";", NL>>, <<"/", "/", " ", "/", "/", NL>>,
      <<"/", "/", "a">>, <<"/">> }
CommentedTexts ==
    { SubSeq(TwoCommands, 1, k) \o c \o SubSeq(TwoCommands, k + 1, Len(TwoCommands)) :
        k \in 0..Len(TwoCommands), c \in Comments }

\* a command with a comment in the place of the blank between two words
CommentBetweenWords ==
    { <<"S", "C", "A", "N">> \o c
         \o <<"a", " ", "Q", "U", "E", "R", "I", "E", "S", "(", ")", ";">> :
        c \in Comments }

CharTexts ==
    {VectorContext(r) : r \in Runs} \cup {WithContext(r) : r \in Runs}
      \cup CommentedTexts \cup CommentBetweenWords

\* a text is given to parse_commands
InitChars ==
    \E text \in CharTexts :
       /\ disk = EmptyDisk
       /\ storage = NoDatabases
       /\ pc = "idle"
       /\ fold = NoFold
       /\ op = [name |-> "new"]
       /\ result = Unit
       /\ panicked = FALSE
       /\ conn = NoConn
       /\ parse = [text |-> text, run |-> ParseCommandsStart]

\* for c in content.chars() { .. }
ParseCommandsChar ==
    /\ ~parse.run.returned
    /\ parse.run.i <= Len(parse.text)
    /\ LET st == ParseCommandsTurn(parse.text, parse.run)
       IN /\ parse' = [parse EXCEPT !.run = st]
          /\ panicked' = (st.value = Panic)
    /\ UNCHANGED <<disk, storage, pc, fold, op, result, conn>>

\* Ok(commands)
ParseCommandsReturn ==
    /\ ~parse.run.returned
    /\ parse.run.i > Len(parse.text)
    /\ parse' = [parse EXCEPT !.run = ParseCommandsTurn(parse.text, parse.run)]
    /\ UNCHANGED <<disk, storage, pc, fold, op, result, panicked, conn>>

NextChars ==
    \/ ParseCommandsChar
    \/ ParseCommandsReturn

SpecChars == InitChars /\ [][NextChars]_vars

----------------------------------------------------------------------------
(* Engine::scan on values: the matrix res under the kernel calls of one fold *)

\* a vector of the kernel's width with a and b in front and 0. behind
KernelRow(a, b) ==
    [c \in 1..KernelWidth |->
       IF c = 1 THEN RatInt(a) ELSE IF c = 2 THEN RatInt(b) ELSE RatInt(0)]

\* query lists of one and two vectors, and one of another width
KernelQueries ==
    {<<r>> : r \in {KernelRow(0, 0), KernelRow(1, 0), KernelRow(0, 1)}}
      \cup {<<KernelRow(1, 0), r>> :
              r \in {KernelRow(0, 0), KernelRow(1, 0), KernelRow(0, 1)}}
      \cup {<< <<RatInt(1)>> >>}

\* blocks of one and two rows, as reduce_kv_batched hands them to the kernel
KernelBlocks ==
    { Block(KernelRow(1, 0), KernelRow(1, 2)),
      Block(KernelRow(0, 1), KernelRow(0, 1)),
      Block(KernelRow(1, 1) \o KernelRow(0, 1), KernelRow(1, 0) \o KernelRow(0, 3)),
      Block(KernelRow(0, 0) \o KernelRow(1, 0), KernelRow(2, 2) \o KernelRow(1, 1)) }

\* Engine::scan from q_shape to the call of reduce_kv_batched: res is the
\* zero matrix of the shape of q; todo are the blocks the fold will hand over
InitKernel ==
    \E queries \in KernelQueries, blocks \in SeqsUpTo(KernelBlocks, MaxBlocks) :
       /\ disk = EmptyDisk
       /\ storage = NoDatabases
       /\ pc = "fold"
       /\ fold = [q |-> queries, todo |-> blocks, calls |-> <<>>,
                  acc |-> Zeros(<<Len(queries), Len(queries[1])>>)]
       /\ op = [name |-> "Scan", queries |-> Len(queries)]
       /\ result = Unit
       /\ panicked = FALSE
       /\ conn = NoConn
       /\ parse = NoParse

\* f(acc, keys, values) with f = compute_cross_attention(512, &q)
KernelCall ==
    /\ ~panicked /\ pc = "fold"
    /\ fold.todo # <<>>
    /\ LET b == Head(fold.todo)
           q_shape == <<NRows(fold.q), NCols(fold.q)>>
       IN IF ~AttentionOk(KernelWidth, q_shape, b.keys, b.values)
          THEN /\ fold' = [fold EXCEPT !.calls = Append(@, b)]
               /\ panicked' = TRUE
               /\ result' = Panic
               /\ pc' = "idle"
          ELSE /\ fold' = [fold EXCEPT
                             !.acc = ComputeCrossAttention(KernelWidth, fold.q, @,
                                                           b.keys, b.values),
                             !.calls = Append(@, b),
                             !.todo = Tail(@)]
               /\ UNCHANGED <<panicked, result, pc>>
    /\ UNCHANGED <<disk, storage, op, conn, parse>>

\* the fold is over: Ok(res.rows()...collect())
KernelReturn ==
    /\ ~panicked /\ pc = "fold"
    /\ fold.todo = <<>>
    /\ result' = Ok(Some(fold.acc))
    /\ pc' = "idle"
    /\ UNCHANGED <<disk, storage, fold, op, panicked, conn, parse>>

NextKernel ==
    \/ KernelCall
    \/ KernelReturn

SpecKernel == InitKernel /\ [][NextKernel]_vars

----------------------------------------------------------------------------
(* Observations used by the properties *)

KeysFile(d, database, bucket) == d[<<database, bucket, KeysBin>>].data
ValuesFile(d, database, bucket) == d[<<database, bucket, ValuesBin>>].data

HasBucket(st, database, bucket) ==
    database \in DOMAIN st /\ bucket \in DOMAIN st[database].buckets

\* the catalog held by a Storage: per database its width and bucket names
Catalog(st) ==
    [n \in DOMAIN st |->
        [qkv_vec_size |-> st[n].conf.qkv_vec_size, buckets |-> DOMAIN st[n].buckets]]

\* both files of the bucket hold the same whole number of rows of width w
WellFormed(d, database, bucket, w) ==
    /\ Len(KeysFile(d, database, bucket)) = Len(ValuesFile(d, database, bucket))
    /\ Len(KeysFile(d, database, bucket)) % w = 0

\* rows in a well-formed bucket
RowCount(d, database, bucket, w) == Len(KeysFile(d, database, bucket)) \div w

\* a fold has run to its break without a panic
FoldReturned == pc = "idle" /\ ~panicked /\ fold.bucket # <<>>

\* the request of conn was read, is text, and main is back at accept
Handled == conn.phase = "accept" /\ conn.request.kind = "text"

\* the payloads written on the connection, in order
IsData(w) == w.part = "data"
DataPayloads ==
    LET d == SelectSeq(conn.sent, IsData) IN [i \in 1..Len(d) |-> d[i].payload]

EndsInDone(p) == Len(p.text) > 0 /\ p.text[Len(p.text)] = "DONE."

\* the commands execute was called with and returned from, in order
ExecutedCommands == [i \in 1..Len(conn.executed) |-> conn.executed[i].cmd]

\* the errors of the request: its parse error, or what execute returned
IsErr(x) == x.result.tag = "Err"
RequestErrors ==
    LET p == ParseCommands(conn.request.items)
        f == SelectSeq(conn.executed, IsErr)
    IN IF ~p.ok THEN <<p.error>> ELSE [i \in 1..Len(f) |-> f[i].result.error]

\* the texts of a request that Command::parse accepts
IsOk(item) == item.ok
ValidCommands(items) ==
    LET v == SelectSeq(items, IsOk) IN [i \in 1..Len(v) |-> v[i].cmd]

----------------------------------------------------------------------------
(* C1 *)

\* C1: after Engine.execute of an Insert succeeds for n rows into an
\* existing bucket of an existing database, keys.bin and values.bin hold
\* what they held before followed by the n new rows in input order.
C1_InsertAppendsRows ==
    [][op'.name = "Insert" =>
         \A entries \in Batches :
            ( /\ op'.rows = Len(entries)
              /\ HasBucket(storage, op'.database, op'.bucket)
              /\ result'.tag = "Ok"
              /\ InsertStep(op'.database, op'.bucket, entries) )
            => /\ KeysFile(disk', op'.database, op'.bucket)
                    = KeysFile(disk, op'.database, op'.bucket)
                        \o Flatten(KeysOf(entries))
               /\ ValuesFile(disk', op'.database, op'.bucket)
                    = ValuesFile(disk, op'.database, op'.bucket)
                        \o Flatten(ValuesOf(entries))]_vars

----------------------------------------------------------------------------
(* C2 *)

\* C2: in every state reached by Engine commands from an empty catalog, the
\* keys.bin and values.bin of every bucket on disk have the same length, a
\* multiple of 4*D bytes, D being the width in the conf.bc of its database.
C2_FilesParallel ==
    \A p \in DOMAIN disk :
       (Len(p) = 3 /\ p[3] = KeysBin) =>
          LET w == Deserialize(disk[<<p[1], ConfBc>>].data)
              values == <<p[1], p[2], ValuesBin>>
          IN /\ values \in DOMAIN disk
             /\ ByteLen(disk[p].data) = ByteLen(disk[values].data)
             /\ ByteLen(disk[p].data) % (F32Size * w) = 0

\* an Insert of at least one row into an existing bucket has returned Ok
C2_Witness ==
    /\ op.name = "Insert"
    /\ op.rows >= 1
    /\ result = Ok(None)
    /\ HasBucket(storage, op.database, op.bucket)

----------------------------------------------------------------------------
(* C3 *)

----------------------------------------------------------------------------
(* C4 *)

\* the blocks of rows [(i-1)*B, min(i*B, N)) of a bucket of N rows of width D
ExpectedBlocks(kfile, vfile, D, B) ==
    LET N == Len(kfile) \div D
    IN [i \in 1..((N + B - 1) \div B) |->
          Block(SubSeq(kfile, (i - 1) * B * D + 1, Min(i * B, N) * D),
                SubSeq(vfile, (i - 1) * B * D + 1, Min(i * B, N) * D))]

\* C4: when every read fills its buffer or reaches the end of the file,
\* reduce_kv_batched over a bucket of N whole rows with batch size B >= 1
\* calls the kernel once per block of rows [iB, min((i+1)B, N)), in
\* ascending order, with the key rows and the value rows of that block,
\* and makes no other call.
C4_BlocksInOrder ==
    ( /\ FoldReturned
      /\ op.name = "reduce_kv_batched"
      /\ fold.short = 0
      /\ WellFormed(disk, fold.database, fold.bucket,
                    storage[fold.database].conf.qkv_vec_size) )
    => fold.calls = ExpectedBlocks(KeysFile(disk, fold.database, fold.bucket),
                                   ValuesFile(disk, fold.database, fold.bucket),
                                   storage[fold.database].conf.qkv_vec_size,
                                   op.batch_size)

\* a fold over three rows in batches of two has returned after a full block
\* and a final block of one row
C4_Witness ==
    /\ FoldReturned
    /\ op.name = "reduce_kv_batched"
    /\ op.batch_size = 2
    /\ fold.short = 0
    /\ WellFormed(disk, fold.database, fold.bucket,
                  storage[fold.database].conf.qkv_vec_size)
    /\ RowCount(disk, fold.database, fold.bucket,
                storage[fold.database].conf.qkv_vec_size) = 3
    /\ Len(fold.calls) = 2

----------------------------------------------------------------------------
(* C5 *)

\* C5: in every kernel call made by reduce_kv_batched over a bucket of whole
\* rows, the key slice and the value slice have the same length, a positive
\* multiple of D, also when a read returns only a part of what was asked.
C5_WholeRowsPerCall ==
    ( /\ fold.bucket # <<>>
      /\ WellFormed(disk, fold.database, fold.bucket,
                    storage[fold.database].conf.qkv_vec_size) )
    => \A i \in DOMAIN fold.calls :
          /\ Len(fold.calls[i].keys) = Len(fold.calls[i].values)
          /\ Len(fold.calls[i].keys) > 0
          /\ Len(fold.calls[i].keys) % storage[fold.database].conf.qkv_vec_size = 0

----------------------------------------------------------------------------
(* C6 *)

\* C6: a Scan with at least one query of the database's width D over a
\* bucket holding at least one whole row returns a matrix of one row of D
\* numbers per query, whatever D is.
C6_ScanAnyWidth ==
    ( /\ pc = "idle"
      /\ op.name = "Scan"
      /\ fold.bucket # <<>>
      /\ fold.kernel = "attention"
      /\ fold.short = 0
      /\ op.queries >= 1
      /\ WellFormed(disk, fold.database, fold.bucket,
                    storage[fold.database].conf.qkv_vec_size)
      /\ RowCount(disk, fold.database, fold.bucket,
                  storage[fold.database].conf.qkv_vec_size) >= 1 )
    => /\ result.tag = "Ok"
       /\ result.value.some
       /\ result.value.matrix.shape
            = <<op.queries, storage[fold.database].conf.qkv_vec_size>>

----------------------------------------------------------------------------
(* C7 *)

\* C7: while no command has panicked, Storage::from_disk on the data
\* directory succeeds and yields the catalog held in memory: the same
\* database names, each with the same width and the same bucket names.
C7_CatalogRoundTrip ==
    ~panicked =>
       /\ StorageFromDisk(disk).status = "Ok"
       /\ Catalog(StorageFromDisk(disk).databases) = Catalog(storage)

\* two databases of different widths have been created, one of them with
\* two buckets
C7_Witness ==
    /\ ~panicked
    /\ op.name = "CreateBucket"
    /\ result.tag = "Ok"
    /\ DOMAIN storage = DbNames
    /\ \E m, n \in DbNames :
          /\ storage[m].conf.qkv_vec_size # storage[n].conf.qkv_vec_size
          /\ DOMAIN storage[n].buckets = BucketNames

----------------------------------------------------------------------------
(* C8 *)

\* a row whose key or whose value is not of width w
HasBadRow(entries, w) ==
    \E i \in 1..Len(entries) : Len(entries[i][1]) # w \/ Len(entries[i][2]) # w

\* C8: an Insert into an existing database in which some row has a key or a
\* value of a width other than D returns SizeMismatch with expected = D and
\* appends no row: the disk and the catalog are as before. (An Insert step
\* on an existing database either is such a rejection or is not the step of
\* any batch with a bad row.)
C8_InsertRejectsBadWidth ==
    [][(op'.name = "Insert" /\ op'.database \in DOMAIN storage) =>
         \/ /\ result'.tag = "Err"
            /\ result'.error.kind = "SizeMismatch"
            /\ result'.error.expected = storage[op'.database].conf.qkv_vec_size
            /\ disk' = disk
            /\ storage' = storage
         \/ \A entries \in Batches :
               ( /\ op'.rows = Len(entries)
                 /\ HasBadRow(entries, storage[op'.database].conf.qkv_vec_size) )
               => ~InsertStep(op'.database, op'.bucket, entries)]_vars

\* an Insert of two rows into an existing bucket was rejected for its widths
C8_Witness ==
    /\ op.name = "Insert"
    /\ op.rows = 2
    /\ HasBucket(storage, op.database, op.bucket)
    /\ result.tag = "Err"
    /\ result.error.kind = "SizeMismatch"

----------------------------------------------------------------------------
(* C9 *)

\* C9: a Scan whose target is Hot or All returns an error value; the
\* process does not panic.
C9_ScanHotAllReturnsError ==
    (op.name = "Scan" /\ op.target.tag \in {"Hot", "All"})
    => (result.tag = "Err" /\ ~panicked)

----------------------------------------------------------------------------
(* C10 *)

\* C10: CreateBucket with a name the database already holds returns
\* EntityAlreadyExists, changes nothing, and the process goes on.
C10_DuplicateBucketReturnsError ==
    [][( /\ op'.name = "CreateBucket"
         /\ HasBucket(storage, op'.database, op'.bucket)
         /\ \E order \in Orderings(BucketsOf(storage, op'.database)
                                      \cup {op'.bucket}) :
               CreateBucketStep(op'.database, op'.bucket, order) )
       => /\ result'.tag = "Err"
          /\ result'.error.kind = "EntityAlreadyExists"
          /\ ~panicked'
          /\ disk' = disk
          /\ storage' = storage]_vars

----------------------------------------------------------------------------
(* C11 *)

\* C11: CreateDatabase with a name the catalog already holds returns
\* EntityAlreadyExists of type database, whatever its properties are, and
\* leaves the catalog and every file as they were.
C11_DuplicateDatabaseRejected ==
    [][(op'.name = "CreateDatabase" /\ op'.database \in DOMAIN storage) =>
         /\ result' = Err(EntityAlreadyExists(op'.database, "database"))
         /\ ~panicked'
         /\ disk' = disk
         /\ storage' = storage]_vars

\* a CreateDatabase was rejected for the name of a database that has a bucket
C11_Witness ==
    /\ op.name = "CreateDatabase"
    /\ result.tag = "Err"
    /\ result.error.kind = "EntityAlreadyExists"
    /\ op.database \in DOMAIN storage
    /\ DOMAIN storage[op.database].buckets # {}

----------------------------------------------------------------------------
(* C12 *)

\* the properties named qkv_vec_size, in the order of the command
WidthProps(props) == SelectSeq(props, LAMBDA p : p.name = "qkv_vec_size")

\* no such property, or the first of them is an Integer greater than 0
WidthAccepted(props) ==
    \/ WidthProps(props) = <<>>
    \/ /\ Head(WidthProps(props)).data.ty = "Integer"
       /\ Head(WidthProps(props)).data.v > 0

WidthOf(props) ==
    IF WidthProps(props) = <<>> THEN 512 ELSE Head(WidthProps(props)).data.v

\* C12: CreateDatabase with a new name creates the database exactly when the
\* command has no qkv_vec_size property (D = 512) or the first one is an
\* Integer > 0 (D = its value); otherwise it returns TypeMismatch with
\* expected "Unsigned integer" and property "qkv_vec_size", and creates
\* nothing.
C12_CreateDatabaseWidth ==
    [][(op'.name = "CreateDatabase" /\ op'.database \notin DOMAIN storage) =>
         \A props \in PropertyLists :
            (\E order \in Orderings(DOMAIN storage \cup {op'.database}) :
                CreateDatabaseStep(op'.database, props, order))
            => IF WidthAccepted(props)
               THEN /\ result' = Ok(None)
                    /\ DOMAIN storage' = DOMAIN storage \cup {op'.database}
                    /\ storage'[op'.database].conf.qkv_vec_size = WidthOf(props)
                    /\ DOMAIN storage'[op'.database].buckets = {}
                    /\ \A n \in DOMAIN storage : storage'[n] = storage[n]
               ELSE /\ result'.tag = "Err"
                    /\ result'.error.kind = "TypeMismatch"
                    /\ result'.error.expected = "Unsigned integer"
                    /\ result'.error.property = "qkv_vec_size"
                    /\ disk' = disk
                    /\ storage' = storage]_vars

\* a database of width 2 and one of width 512 exist, and a CreateDatabase
\* with a new name was rejected for its width
C12_Witness ==
    /\ op.name = "CreateDatabase"
    /\ op.database \notin DOMAIN storage
    /\ result.tag = "Err"
    /\ result.error.kind = "TypeMismatch"
    /\ \E n \in DOMAIN storage : storage[n].conf.qkv_vec_size = 2

----------------------------------------------------------------------------
(* C13 *)

\* C13: CreateBucket, Insert and Scan of a Physical target against a
\* database name that the catalog does not hold return DatabaseDoesNotExist
\* and change neither the catalog nor any file.
C13_MissingDatabase ==
    [][( /\ op'.name \in {"CreateBucket", "Insert", "Scan"}
         /\ op'.database \notin DOMAIN storage
         /\ (op'.name = "Scan" => op'.target.tag = "Physical") )
       => /\ result' = Err(DatabaseDoesNotExist(op'.database))
          /\ ~panicked'
          /\ disk' = disk
          /\ storage' = storage]_vars

\* an Insert of rows named a database the catalog does not hold, while
\* another database exists
C13_Witness ==
    /\ op.name = "Insert"
    /\ op.rows >= 1
    /\ op.database \notin DOMAIN storage
    /\ DOMAIN storage # {}
    /\ result.tag = "Err"
    /\ result.error.kind = "DatabaseDoesNotExist"

----------------------------------------------------------------------------
(* C14 *)

AllOfWidth(queries, w) == \A i \in 1..Len(queries) : Len(queries[i]) = w

\* C14: a Scan of Physical(name) on an existing database, all queries of
\* width D, name not a bucket of it, returns BucketDoesNotExist for any
\* number of queries, zero included, and changes nothing. (Such a Scan step
\* either is that rejection or is not the step of any such query list.)
C14_MissingBucket ==
    [][( /\ op'.name = "Scan"
         /\ op'.target.tag = "Physical"
         /\ op'.database \in DOMAIN storage
         /\ op'.target.name \notin DOMAIN storage[op'.database].buckets )
       => \/ /\ result' = Err(BucketDoesNotExist(op'.database, op'.target.name))
             /\ ~panicked'
             /\ pc' = "idle"
             /\ disk' = disk
             /\ storage' = storage
          \/ \A queries \in QueryLists, cpus \in Cpus :
                ( /\ Len(queries) = op'.queries
                  /\ AllOfWidth(queries, storage[op'.database].conf.qkv_vec_size) )
                => ~ScanStep(op'.database, op'.target, queries, cpus)]_vars

\* a Scan with no query was rejected for its bucket
C14_Witness ==
    /\ op.name = "Scan"
    /\ op.queries = 0
    /\ op.database \in DOMAIN storage
    /\ result.tag = "Err"
    /\ result.error.kind = "BucketDoesNotExist"

----------------------------------------------------------------------------
(* C15 *)

\* C15: a Scan with an empty query list on an existing bucket returns the
\* empty matrix without a seek, a read or a kernel call: no fold starts, and
\* the cursors of the handles and the files are as before.
C15_EmptyScanNoIo ==
    [][( /\ op'.name = "Scan"
         /\ op'.target.tag = "Physical"
         /\ op'.queries = 0
         /\ pc = "idle"
         /\ HasBucket(storage, op'.database, op'.target.name) )
       => /\ result' = Ok(Some(EmptyMatrix))
          /\ pc' = "idle"
          /\ fold' = NoFold
          /\ disk' = disk
          /\ storage' = storage]_vars

\* an empty Scan returned on a bucket whose cursors stand behind stored rows
C15_Witness ==
    /\ op.name = "Scan"
    /\ op.queries = 0
    /\ result = Ok(Some(EmptyMatrix))
    /\ HasBucket(storage, op.database, op.target.name)
    /\ storage[op.database].buckets[op.target.name].keys_pos > 0

----------------------------------------------------------------------------
(* C16 *)

\* C16: a connection whose request was read completely and is UTF-8 gets
\* exactly one response frame, a length prefix followed by a payload,
\* however many commands it holds and however many fail (the connection
\* staying up)
C16_OneResponseFrame ==
    (Handled /\ conn.up) =>
       /\ Len(conn.sent) = 2
       /\ conn.sent[1].part = "len"
       /\ conn.sent[2].part = "data"

----------------------------------------------------------------------------
(* C17 *)

\* C17: a payload ending in DONE. is on the connection exactly when the
\* request was handled with every command parsed and executed successfully
\* (and the writes went through); when a parse or execution error occurred,
\* every payload on the connection is the display string of one of the
\* errors, the connection being up they are exactly the errors' display
\* strings, and none ends in DONE.
C17_DoneIffNoError ==
    /\ (\E i \in 1..Len(DataPayloads) : EndsInDone(DataPayloads[i]))
         <=> (Handled /\ RequestErrors = <<>> /\ conn.up)
    /\ (conn.request.kind = "text" /\ RequestErrors # <<>>) =>
         /\ \A i \in 1..Len(DataPayloads) :
               /\ ~EndsInDone(DataPayloads[i])
               /\ \E j \in 1..Len(RequestErrors) :
                     DataPayloads[i] = Payload(Display(RequestErrors[j]), None)
         /\ conn.up =>
               DataPayloads = [j \in 1..Len(RequestErrors) |->
                                 Payload(Display(RequestErrors[j]), None)]

\* a request of two commands was handled, one failed, and its display string
\* went out
C17_Witness ==
    /\ Handled
    /\ conn.up
    /\ Len(conn.executed) = 2
    /\ Len(RequestErrors) = 1
    /\ DataPayloads = <<Payload(Display(RequestErrors[1]), None)>>

----------------------------------------------------------------------------
(* C18 *)

\* C18: when a command of a request fails in execution, the commands after
\* it are still executed, in the order of the request, and their changes
\* take effect: at any moment the commands executed, the one in execution
\* and the ones to come are the request; a handled request leaves none to
\* come; a CreateDatabase that returned Ok, after a failure or not, has its
\* database in the storage and in what a restart would load from disk
C18_RestStillExecuted ==
    (conn.request.kind = "text" /\ ParseCommands(conn.request.items).ok) =>
       /\ ExecutedCommands
            \o (IF conn.phase = "executed" THEN <<conn.current>> ELSE <<>>)
            \o conn.todo
          = ParseCommands(conn.request.items).commands
       /\ Handled => conn.todo = <<>>
       /\ \A i \in 1..Len(conn.executed) :
            (conn.executed[i].cmd.kind = "CreateDatabase"
               /\ conn.executed[i].result.tag = "Ok") =>
               /\ conn.executed[i].cmd.database \in DOMAIN storage
               /\ conn.executed[i].cmd.database \in DOMAIN StorageFromDisk(disk).databases

\* a failed Insert was followed by a CreateDatabase that created its database
C18_Witness ==
    /\ Handled
    /\ Len(conn.executed) = 2
    /\ conn.executed[1].cmd.kind = "Insert"
    /\ conn.executed[1].result.tag = "Err"
    /\ conn.executed[2].cmd.kind = "CreateDatabase"
    /\ conn.executed[2].result.tag = "Ok"
    /\ conn.executed[2].cmd.database \in DOMAIN storage

----------------------------------------------------------------------------
(* C19 *)

\* C19: when a command of a request fails to parse, the parse error is the
\* response and the valid commands of the request are executed all the same
C19_ParseErrorRestExecuted ==
    (Handled /\ ~ParseCommands(conn.request.items).ok) =>
       /\ conn.up => DataPayloads = <<Payload(Display(UnexpectedEOS), None)>>
       /\ ExecutedCommands = ValidCommands(conn.request.items)

----------------------------------------------------------------------------
(* C20 *)

\* C20: a request that is not UTF-8 has no command executed and no frame
\* written, and the server is back at accept for the next connection
C20_BinaryRequestServerGoesOn ==
    conn.request.kind = "binary" =>
       /\ conn.executed = <<>>
       /\ conn.sent = <<>>
       /\ conn.phase = "accept"

----------------------------------------------------------------------------
(* C21 *)

\* C21: when the write of db_info.index during CreateDatabase, or of
\* bucket_info.index during CreateBucket, fails with an I/O error, the
\* command returns an error and the server keeps running
C21_IndexWriteFailureReported ==
    [][(/\ conn.phase = "loop"
        /\ conn'.phase = "executed"
        /\ LET c == conn'.current
           IN \/ /\ c.kind = "CreateDatabase"
                 /\ c.database \notin DOMAIN storage
                 /\ WidthAccepted(c.props)
                 /\ IsDir(disk, <<DbInfoIndex>>)
              \/ /\ c.kind = "CreateBucket"
                 /\ c.database \in DOMAIN storage
                 /\ c.bucket \notin DOMAIN storage[c.database].buckets
                 /\ IsDir(disk, <<c.database, BucketInfoIndex>>))
       => (result'.tag = "Err" /\ ~panicked')]_vars

----------------------------------------------------------------------------
(* C22 *)

\* C22: a vec_list of n >= 1 vectors parses to exactly these n vectors in
\* source order, each with its numbers in source order, and `()` to none:
\* every SCAN text written with a vec_list parses, and its queries are the
\* vectors of the list
C22_VecListParsed ==
    parse.src.form = "scan" =>
       /\ parse.out.tag = "Ok"
       /\ parse.out.value.queries = ValuesOfList(parse.src.ks)

----------------------------------------------------------------------------
(* C23 *)

\* C23: a parsed INSERT with KEYS list ks and VALUES list vs has
\* min(|ks|, |vs|) entries, entry i being (ks[i], vs[i]); an INSERT into
\* `bucket INSIDE database` with `()` for both lists parses to zero entries,
\* and executing it on an existing database returns Ok and changes neither
\* the catalog nor any file
C23_InsertPairsLists ==
    [][/\ (parse'.src.form = "insert" /\ parse'.out.tag = "Ok") =>
            LET ks == ValuesOfList(parse'.src.ks)
                vs == ValuesOfList(parse'.src.vs)
                n == IF Len(ks) <= Len(vs) THEN Len(ks) ELSE Len(vs)
            IN /\ Len(parse'.out.value.entries) = n
               /\ \A i \in 1..n : parse'.out.value.entries[i] = <<ks[i], vs[i]>>
       /\ (/\ parse'.src.form = "insert"
           /\ Len(parse'.src.ref) = 3
           /\ parse'.src.ks = <<>>
           /\ parse'.src.vs = <<>>) =>
            (parse'.out.tag = "Ok" /\ parse'.out.value.entries = <<>>)
       /\ (/\ parse.src.form = "insert"
           /\ parse.out.tag = "Ok"
           /\ ~parse.executed
           /\ parse'.executed
           /\ parse.out.value.entries = <<>>
           /\ parse.out.value.database \in DOMAIN storage) =>
            (result' = Ok(None) /\ ~panicked' /\ disk' = disk /\ storage' = storage)
      ]_vars

\* an INSERT of one key and one value was parsed to one entry and executed
C23_Witness ==
    /\ parse.src.form = "insert"
    /\ parse.out.tag = "Ok"
    /\ parse.executed
    /\ result = Ok(None)
    /\ parse.out.value.entries = << << <<1, 2>>, <<1, 2>> >> >>

----------------------------------------------------------------------------
(* C24 *)

\* C24: Command::parse keeps the reference rules: CREATE DATABASE with
\* `x INSIDE y` is rejected, CREATE BUCKET with a bare identifier is
\* rejected, an INSERT that is grammatical but for its bare reference fails
\* with NoBucketInInsert, and a CreateBucket or Insert that is returned has
\* its bucket and its database from `bucket INSIDE database`, in that order
C24_ReferenceRules ==
    LET r == parse.src.ref
    IN /\ (parse.src.form = "create" /\ parse.src.entity = "DATABASE" /\ Len(r) = 3)
            => parse.out.tag = "Err"
       /\ (parse.src.form = "create" /\ parse.src.entity = "BUCKET" /\ Len(r) = 1)
            => parse.out.tag = "Err"
       /\ (parse.src.form = "insert" /\ Len(r) = 1)
            => parse.out = Err(NoBucketInInsert)
       /\ (parse.out.tag = "Ok" /\ parse.out.value.kind \in {"CreateBucket", "Insert"})
            => /\ Len(r) = 3
               /\ parse.out.value.bucket = NameOf(r[1].s)
               /\ parse.out.value.database = NameOf(r[3].s)
       /\ (parse.out.tag = "Ok" /\ parse.out.value.kind = "CreateDatabase")
            => /\ Len(r) = 1
               /\ parse.out.value.database = NameOf(r[1].s)

----------------------------------------------------------------------------
(* C25 *)

\* C25: a parsed `SCAN x INSIDE db` has database db and target All when x
\* is ALL, Hot when x is HOT, Physical(x) for any other identifier, `all`
\* included; a parsed `SCAN db` has database db and target All
C25_ScanTarget ==
    (parse.src.form = "scan" /\ parse.out.tag = "Ok") =>
       LET r == parse.src.ref
           c == parse.out.value
       IN IF Len(r) = 3
          THEN /\ c.database = NameOf(r[3].s)
               /\ r[1].s = "ALL" => c.target = All
               /\ r[1].s = "HOT" => c.target = Hot
               /\ r[1].s \notin {"ALL", "HOT"} => c.target = Physical(NameOf(r[1].s))
          ELSE /\ c.database = NameOf(r[1].s)
               /\ c.target = All

\* `SCAN all INSIDE a` was parsed to a scan of the bucket all
C25_Witness ==
    /\ parse.src.form = "scan"
    /\ parse.src.ref[1] = Word("all")
    /\ parse.out.tag = "Ok"
    /\ parse.out.value.target = Physical(<<"all">>)

----------------------------------------------------------------------------
(* C26 *)

\* C26: the catalog only grows and configurations are fixed: over every
\* step of the Engine (a restart from disk included) each database stays,
\* with the same qkv_vec_size, and each of its buckets stays, with the same
\* stored width
C26_CatalogOnlyGrows ==
    [][\A db \in DOMAIN storage :
          /\ db \in DOMAIN storage'
          /\ storage'[db].conf = storage[db].conf
          /\ \A b \in DOMAIN storage[db].buckets :
                /\ b \in DOMAIN storage'[db].buckets
                /\ storage'[db].buckets[b].qkv_vec_size
                     = storage[db].buckets[b].qkv_vec_size]_vars

\* two databases exist, one of them with two buckets
C26_Witness ==
    /\ Cardinality(DOMAIN storage) = 2
    /\ \E db \in DOMAIN storage : Cardinality(DOMAIN storage[db].buckets) = 2
    /\ op.name = "CreateBucket"
    /\ result = Ok(None)

----------------------------------------------------------------------------
(* C27 *)

\* C27: right after Bucket::initialize returns successfully, keys.bin and
\* values.bin of the path both have length 0, also when files with content
\* were there before
C27_InitializeLeavesEmptyFiles ==
    [][(op'.name = "initialize" /\ result' = Unit)
         => /\ Len(KeysFile(disk', op'.database, op'.bucket)) = 0
            /\ Len(ValuesFile(disk', op'.database, op'.bucket)) = 0]_vars

----------------------------------------------------------------------------
(* C29 *)

\* C29: whenever Insert returns SizeMismatch{expected, got}, expected is
\* the width of the database and got, the length of the first vector whose
\* length is not that width, differs from expected
C29_SizeMismatchGot ==
    (/\ op.name = "Insert"
     /\ result.tag = "Err"
     /\ result.error.kind = "SizeMismatch")
      => /\ result.error.expected = storage[op.database].conf.qkv_vec_size
         /\ result.error.got # result.error.expected

----------------------------------------------------------------------------
(* C30 *)

\* C30: an Insert against a database that exists and a bucket name that is
\* not in it changes nothing and is never reported as success: it returns
\* BucketDoesNotExist (or the SizeMismatch of a row validated before)
C30_InsertMissingBucket ==
    [][(/\ op'.name = "Insert"
        /\ op'.database \in DOMAIN storage
        /\ op'.bucket \notin DOMAIN storage[op'.database].buckets)
         => /\ result'.tag = "Err"
            /\ \/ result'.error = BucketDoesNotExist(op'.database, op'.bucket)
               \/ result'.error.kind = "SizeMismatch"
            /\ disk' = disk
            /\ storage' = storage]_vars

----------------------------------------------------------------------------
(* C28 *)

\* a sequence as a tuple, which TLC computes once and not at each use
Computed(seq) == seq \o <<>>

\* the dot product of query i and row j of the keys of a block
QueryDotKey(q, keys, i, j) ==
    SumRange([x \in 1..NCols(q) |->
                RatMul(q[i][x], keys[(j - 1) * NCols(q) + x])], 1, NCols(q))

\* S: exp(Q*K^T) divided element-wise by its sums along the query axis
SoftmaxOverQueries(q, keys, i, j) ==
    RatDiv(Exp(QueryDotKey(q, keys, i, j)),
           SumRange([n \in 1..NRows(q) |-> Exp(QueryDotKey(q, keys, n, j))],
                    1, NRows(q)))

\* S*V + R/D for one block, D being the width of the vectors
BlockUpdate(q, r, block) ==
    LET d == NCols(q)
        nk == Len(block.keys) \div d
        s == Computed([i \in 1..NRows(q) |->
                Computed([j \in 1..nk |->
                            SoftmaxOverQueries(q, block.keys, i, j)])])
    IN [i \in 1..NRows(q) |->
          [c \in 1..d |->
             RatAdd(SumRange([j \in 1..nk |->
                                RatMul(s[i][j], block.values[(j - 1) * d + c])],
                             1, nk),
                    RatDiv(r[i][c], RatInt(d)))]]

\* the update folded over the first n blocks, starting from the zero matrix
RECURSIVE FoldedUpdate(_, _, _)
FoldedUpdate(q, blocks, n) ==
    IF n = 0 THEN [i \in 1..NRows(q) |-> [c \in 1..NCols(q) |-> RatInt(0)]]
    ELSE BlockUpdate(q, FoldedUpdate(q, blocks, n - 1), blocks[n])

\* C28: for each block (K, V) the kernel replaces the accumulator R by
\* S*V + R/D, S being exp(Q*K^T) divided element-wise by its sums along the
\* query axis and D the vector width; the result of a Scan is this update
\* folded over the blocks in their order, starting from the zero matrix
C28_KernelUpdate ==
    ~panicked
      => /\ fold.acc = FoldedUpdate(fold.q, fold.calls, Len(fold.calls))
         /\ pc = "idle" => result = Ok(Some(FoldedUpdate(fold.q, fold.calls,
                                                         Len(fold.calls))))

\* a Scan of two queries has returned after two blocks, the first of two
\* rows, and the first block weighs in the result
C28_Witness ==
    /\ ~panicked /\ pc = "idle"
    /\ NRows(fold.q) = 2
    /\ Len(fold.calls) = 2
    /\ Len(fold.calls[1].keys) = 2 * KernelWidth
    /\ result.value.matrix
         # BlockUpdate(fold.q, FoldedUpdate(fold.q, fold.calls, 0), fold.calls[2])

----------------------------------------------------------------------------
(* C32 *)

\* The grammar of the commands as a recogniser over tokens: each operator
\* gives the index behind the phrase that starts at i, or 0 when there is none.

TokenAt(t, i) == IF i \in 1..Len(t) THEN t[i] ELSE Token("end", "")
IsIdent(t, i) == TokenAt(t, i).ty = "identifier"
IsNumber(t, i) == TokenAt(t, i).ty = "number"
IsKw(t, i, k) == TokenAt(t, i) = Token("keyword", k)
IsP(t, i, c) == TokenAt(t, i) = Token("punctuation", c)

\* ("," NUMBER)* "]"
RECURSIVE GNumbers(_, _)
GNumbers(t, i) ==
    IF IsP(t, i, "]") THEN i + 1
    ELSE IF IsP(t, i, ",") /\ IsNumber(t, i + 1) THEN GNumbers(t, i + 2)
    ELSE 0

\* vec := "[" NUMBER ("," NUMBER)* "]" | "[" "]"
GVec(t, i) ==
    IF ~IsP(t, i, "[") THEN 0
    ELSE IF IsP(t, i + 1, "]") THEN i + 2
    ELSE IF IsNumber(t, i + 1) THEN GNumbers(t, i + 2)
    ELSE 0

\* ("," vec)* ")"
RECURSIVE GVecs(_, _)
GVecs(t, i) ==
    IF IsP(t, i, ")") THEN i + 1
    ELSE IF IsP(t, i, ",") /\ GVec(t, i + 1) # 0 THEN GVecs(t, GVec(t, i + 1))
    ELSE 0

\* vec_list := "(" vec ("," vec)* ")" | "(" ")"
GVecList(t, i) ==
    IF ~IsP(t, i, "(") THEN 0
    ELSE IF IsP(t, i + 1, ")") THEN i + 2
    ELSE IF GVec(t, i + 1) # 0 THEN GVecs(t, GVec(t, i + 1))
    ELSE 0

\* assign := IDENT "=" NUMBER
GAssign(t, i) ==
    IF IsIdent(t, i) /\ IsP(t, i + 1, "=") /\ IsNumber(t, i + 2) THEN i + 3 ELSE 0

\* ("AND" assign)*
RECURSIVE GAssigns(_, _)
GAssigns(t, i) ==
    IF ~IsKw(t, i, "AND") THEN i
    ELSE IF GAssign(t, i + 1) = 0 THEN 0
    ELSE GAssigns(t, GAssign(t, i + 1))

\* with?
GWith(t, i) ==
    IF i = 0 THEN 0
    ELSE IF ~IsKw(t, i, "WITH") THEN i
    ELSE IF GAssign(t, i + 1) = 0 THEN 0
    ELSE GAssigns(t, GAssign(t, i + 1))

\* ref_db := IDENT
GRefDb(t, i) == IF IsIdent(t, i) THEN i + 1 ELSE 0

\* ref_bucket := IDENT "INSIDE" IDENT
GRefBucket(t, i) ==
    IF IsIdent(t, i) /\ IsKw(t, i + 1, "INSIDE") /\ IsIdent(t, i + 2) THEN i + 3
    ELSE 0

\* ref_any := IDENT | IDENT "INSIDE" IDENT
GRefAny(t, i) ==
    IF GRefBucket(t, i) # 0 THEN GRefBucket(t, i) ELSE GRefDb(t, i)

\* KEYWORD vec_list behind a phrase that ends before i
GKwVecList(t, i, k) ==
    IF i = 0 \/ ~IsKw(t, i, k) THEN 0 ELSE GVecList(t, i + 1)

\* command := create | insert | scan
GCommand(t) ==
    IF IsKw(t, 1, "CREATE") /\ IsKw(t, 2, "DATABASE") THEN GWith(t, GRefDb(t, 3))
    ELSE IF IsKw(t, 1, "CREATE") /\ IsKw(t, 2, "BUCKET")
    THEN GWith(t, GRefBucket(t, 3))
    ELSE IF IsKw(t, 1, "INSERT") /\ IsKw(t, 2, "INTO")
    THEN GWith(t, GKwVecList(t, GKwVecList(t, GRefBucket(t, 3), "KEYS"), "VALUES"))
    ELSE IF IsKw(t, 1, "SCAN")
    THEN GWith(t, GKwVecList(t, GRefAny(t, 2), "QUERIES"))
    ELSE 0

\* a command of the grammar followed by the terminating `;` and nothing else
Sentence(t) == GCommand(t) # 0 /\ GCommand(t) = Len(t) /\ IsP(t, Len(t), ";")

\* C32: Command::parse returns Ok only for a text whose tokens are a
\* sentence of the command grammar followed by nothing but the terminating
\* `;`; tokens left over, and a token behind INSIDE that is no identifier,
\* make the parse fail
C32_OnlySentencesParse ==
    parse.out.tag = "Ok" /\ parse.src.form # "none"
       => Sentence(Tokenize(parse.src.text))

----------------------------------------------------------------------------
(* C31 *)

\* C31: Command::parse and parse_commands return Ok or Err(ParseError) for
\* every text and never abort: a token tagged Number converts to the numeric
\* type the parser asks for
C31_ParseNeverAborts ==
    parse.run.returned => parse.run.value.tag \in {"Ok", "Err"}

----------------------------------------------------------------------------
(* C33: comments are token separators *)

\* the character at i belongs to a comment: some `//` at or before i is not
\* followed by a newline up to i (the newline that ends a comment is kept,
\* which replaces the comment and its newline by one newline)
InsideComment(text, i) ==
    \E j \in 1..i :
       /\ j < Len(text)
       /\ text[j] = "/"
       /\ text[j + 1] = "/"
       /\ \A m \in j..i : text[m] # NL

\* the text with every comment replaced by a single newline
StripComments(text) ==
    LET kept == SelectSeq([i \in 1..Len(text) |-> i],
                          LAMBDA i : ~InsideComment(text, i))
    IN [k \in 1..Len(kept) |-> text[kept[k]]]

\* parse_commands run to its return
RECURSIVE ParseCommandsRun(_, _)
ParseCommandsRun(content, st) ==
    IF st.returned THEN st.value
    ELSE ParseCommandsRun(content, ParseCommandsTurn(content, st))

\* C33: parse_commands gives for a text the list of commands or the error
\* that it gives for the text in which every comment, from `//` up to and
\* including the newline that ends it, is replaced by a single newline.
C33_CommentIsSeparator ==
    parse.run.returned
       => parse.run.value
             = ParseCommandsRun(StripComments(parse.text), ParseCommandsStart)

----------------------------------------------------------------------------
(* C36: the success response is that of the last command *)

\* every command of the handled request was executed and returned Ok
AllSucceeded ==
    /\ Handled
    /\ ParseCommands(conn.request.items).ok
    /\ conn.executed # <<>>
    /\ Len(conn.executed) = Len(conn.request.items)
    /\ \A k \in 1..Len(conn.executed) : conn.executed[k].result.tag = "Ok"

\* the return of the last command of the request
LastExecuted == conn.executed[Len(conn.executed)]

\* what the claim expects on the connection: the matrix of a last SCAN and
\* DONE., or DONE. alone
LastCommandPayload ==
    IF LastExecuted.cmd.kind = "Scan"
    THEN Payload(<<"(", "rows", ")\n", "DONE.">>, LastExecuted.result.value)
    ELSE Payload(<<"DONE.">>, None)

\* C36: when every command of a request succeeded, the payload written is
\* determined by the last command alone: DONE. when it returned no result,
\* the matrix line of its result followed by DONE. when it was a SCAN; the
\* result of a SCAN that is not the last command is not written.
C36_ResponseOfLastCommand ==
    AllSucceeded
       => /\ \A k \in 1..Len(conn.sent) : conn.sent[k].payload = LastCommandPayload
          /\ conn.up => DataPayloads = <<LastCommandPayload>>

\* a request of a successful SCAN followed by a successful command that is
\* not a SCAN was answered with DONE. alone
C36_Witness ==
    /\ AllSucceeded
    /\ conn.up
    /\ Len(conn.executed) = 2
    /\ conn.executed[1].cmd.kind = "Scan"
    /\ conn.executed[1].result.value.some
    /\ LastExecuted.cmd.kind # "Scan"
    /\ DataPayloads = <<Payload(<<"DONE.">>, None)>>

----------------------------------------------------------------------------
(* C34: reduce_kv_batched comes to an end *)

\* C34: every call of reduce_kv_batched comes to an end, whatever the batch
\* size from 0 on and whatever reads come back short, a read before the end
\* of the file returning at least one byte; the loop is left at the first
\* pair of reads whose key read gave no byte, in that turn and in the rest
\* of the call the kernel is not called, and the loop is left by its break
\* in no other turn.
C34_FoldTerminates ==
    /\ [](pc = "fold" => <>(pc = "idle"))
    /\ [][ /\ (pc = "fold" /\ fold.keys_buf.bytes = 0)
              => (pc' = "idle" /\ fold'.calls = fold.calls)
           /\ (pc = "fold" /\ pc' = "idle" /\ ~panicked')
              => fold.keys_buf.bytes = 0
           /\ (pc = "idle" /\ pc' = "idle")
              => (fold'.calls = fold.calls \/ fold' = NoFold) ]_vars

\* a fold with batch size 0 over a bucket with rows has returned after two
\* kernel calls, one of its reads having come back short
C34_Witness ==
    /\ FoldReturned
    /\ op.name = "reduce_kv_batched"
    /\ op.batch_size = 0
    /\ fold.short > 0
    /\ Len(fold.calls) = 2
    /\ Len(KeysFile(disk, fold.database, fold.bucket)) > 0

----------------------------------------------------------------------------
(* C37: the index never names what is not on disk *)

\* the names an index file lists
Listed(d, idx) == IF IsFile(d, idx) THEN IndexNames(d[idx].data) ELSE {}

\* C37: between any two file-system calls of create_database and
\* create_bucket, and so after a stop at any of them, every name that
\* db_info.index lists has a directory with conf.bc and bucket_info.index,
\* every name that a bucket_info.index lists has a directory with keys.bin
\* and values.bin, and Storage::from_disk succeeds.
C37_IndexNamesWhatExists ==
    /\ \A n \in Listed(disk, <<DbInfoIndex>>) :
          /\ IsDir(disk, <<n>>)
          /\ IsFile(disk, <<n, ConfBc>>)
          /\ IsFile(disk, <<n, BucketInfoIndex>>)
          /\ \A b \in Listed(disk, <<n, BucketInfoIndex>>) :
                /\ IsDir(disk, <<n, b>>)
                /\ IsFile(disk, <<n, b, KeysBin>>)
                /\ IsFile(disk, <<n, b, ValuesBin>>)
    /\ StorageFromDisk(disk).status = "Ok"

\* a create_bucket stands before its index write next to a bucket that is
\* listed: the new directory and keys.bin are on disk, the name is not listed
C37_Witness ==
    /\ pc = "calls"
    /\ op.name = "create_bucket"
    /\ IsFile(disk, <<op.database, op.bucket, KeysBin>>)
    /\ op.bucket \notin Listed(disk, <<op.database, BucketInfoIndex>>)
    /\ Listed(disk, <<op.database, BucketInfoIndex>>) # {}
    /\ op.database \in Listed(disk, <<DbInfoIndex>>)

----------------------------------------------------------------------------
(* C35: a Scan changes nothing and can be repeated *)

\* the batch size of the fold, from the capacity its buffers were given
FoldBatchSize == fold.cap \div (F32Size * storage[fold.database].conf.qkv_vec_size)

\* the fold of a Scan is over, by its return or by a panic
ScanFoldOver ==
    /\ pc = "idle"
    /\ op.name = "Scan"
    /\ op.queries >= 1
    /\ fold.bucket # <<>>
    /\ fold.kernel = "attention"

\* C35: no step of a Scan changes a file or the catalog; the fold of a Scan
\* starts at offset 0 of both files wherever the cursors stood; and the
\* blocks a Scan folds are determined by the files, equal to the blocks of
\* batch-size rows from row 0 on, so that a second identical Scan over the
\* unchanged files folds the same blocks and returns the same result.
C35_ScanRepeatable ==
    /\ [][ op'.name = "Scan"
             => (disk' = disk /\ Catalog(storage') = Catalog(storage)) ]_vars
    /\ [][ (op'.name = "Scan" /\ pc = "idle" /\ pc' = "fold")
             => LET b == storage'[fold'.database].buckets[fold'.bucket]
                IN /\ b.keys_pos = fold'.keys_buf.bytes
                   /\ b.values_pos = fold'.values_buf.bytes
                   /\ fold'.keys_buf.floats
                        = SubSeq(KeysFile(disk, fold'.database, fold'.bucket),
                                 1, b.keys_pos \div F32Size)
                   /\ fold'.values_buf.floats
                        = SubSeq(ValuesFile(disk, fold'.database, fold'.bucket),
                                 1, b.values_pos \div F32Size) ]_vars
    /\ [](ScanFoldOver
            => fold.calls
                 = ExpectedBlocks(KeysFile(disk, fold.database, fold.bucket),
                                  ValuesFile(disk, fold.database, fold.bucket),
                                  storage[fold.database].conf.qkv_vec_size,
                                  FoldBatchSize))

====
